---------------------------- MODULE Spec2Model ----------------------------
(***************************************************************************)
(* Model of the Bedrock model-discovery cache (src/agents/                 *)
(* bedrock-discovery.ts) and of the Bedrock embedding adapter.             *)
(*                                                                         *)
(* JavaScript strings are sequences of one-character strings, so that      *)
(* trim, toLowerCase, split, includes and JSON.stringify are computed.     *)
(* The JavaScript value undefined is the one-element sequence Undefined,   *)
(* which is no string of characters.                                       *)
(***************************************************************************)
EXTENDS Integers, Sequences, FiniteSets, TLC

\* ------------------------------------------------------------------------
\* Bounds of the model
\* ------------------------------------------------------------------------
\* Calls of the module's exported functions (discoverBedrockModels and
\* resetBedrockDiscoveryCacheForTest) in one behaviour
MaxCalls == 3
\* ListInferenceProfiles requests of one discovery
MaxPages == 2
\* Model summaries in one ListFoundationModels response
MaxSummaries == 2
\* Profiles of one page, and model references of one profile
MaxProfiles == 3
\* Calls in a behaviour that explores the listings (CatalogWorlds)
MaxCatalogCalls == 1
\* Calls in a behaviour that explores the cache keys (KeyWorlds)
MaxKeyCalls == 2
\* Pieces of a model argument given to normalizeBedrockModel
MaxModelParts == 3
\* createBedrockEmbeddingProvider calls in one behaviour
MaxProviders == 1
\* embedQuery and embedBatch calls in one behaviour
MaxEmbedCalls == 2
\* Texts of one embedBatch call
MaxTexts == 3
\* Remote invocations sent in one behaviour
MaxInvocations == 3

\* ------------------------------------------------------------------------
\* JavaScript strings and numbers
\* ------------------------------------------------------------------------
\* undefined where a string is expected, where an array of strings is expected
\* and where a number is expected (numbers are fractions, see MathFloor).
Undefined == <<"undefined">>
UndefinedList == <<Undefined>>
UndefinedNumber == <<0, 0>>

\* The printable ASCII characters, code units 32 .. 126, in code-unit order
\* (code unit 96, the grave accent, is held by a placeholder: no string of the
\* model contains it).
Ascii ==
  << " ", "!", "\"", "#", "$", "%", "&", "'", "(", ")", "*", "+", ",", "-", ".", "/",
     "0", "1", "2", "3", "4", "5", "6", "7", "8", "9", ":", ";", "<", "=", ">", "?",
     "@", "A", "B", "C", "D", "E", "F", "G", "H", "I", "J", "K", "L", "M", "N", "O",
     "P", "Q", "R", "S", "T", "U", "V", "W", "X", "Y", "Z", "[", "\\", "]", "^", "_",
     "grave", "a", "b", "c", "d", "e", "f", "g", "h", "i", "j", "k", "l", "m", "n", "o",
     "p", "q", "r", "s", "t", "u", "v", "w", "x", "y", "z", "{", "|", "}", "~" >>

Chars == { Ascii[i] : i \in 1..Len(Ascii) } \cup {"\t"}

CodeUnitOf ==
  [c \in Chars |-> IF c = "\t" THEN 9 ELSE 31 + (CHOOSE i \in 1..Len(Ascii) : Ascii[i] = c)]

CodeUnit(c) == CodeUnitOf[c]

CharOf(code) == Ascii[code - 31]

IsUpperChar(c) == CodeUnit(c) >= 65 /\ CodeUnit(c) <= 90
IsLowerChar(c) == CodeUnit(c) >= 97 /\ CodeUnit(c) <= 122
IsWhiteSpace(c) == c = " " \/ c = "\t"

LowerCharOf == [c \in Chars |-> IF IsUpperChar(c) THEN CharOf(CodeUnit(c) + 32) ELSE c]
UpperCharOf == [c \in Chars |-> IF IsLowerChar(c) THEN CharOf(CodeUnit(c) - 32) ELSE c]

LowerChar(c) == LowerCharOf[c]
UpperChar(c) == UpperCharOf[c]

\* String.prototype.toLowerCase / toUpperCase
ToLowerCase(s) == [i \in 1..Len(s) |-> LowerChar(s[i])]
ToUpperCase(s) == [i \in 1..Len(s) |-> UpperChar(s[i])]

\* String.prototype.trim
RECURSIVE TrimStart(_)
TrimStart(s) ==
  IF s # <<>> /\ IsWhiteSpace(Head(s)) THEN TrimStart(Tail(s)) ELSE s

RECURSIVE TrimEnd(_)
TrimEnd(s) ==
  IF s # <<>> /\ IsWhiteSpace(s[Len(s)]) THEN TrimEnd(SubSeq(s, 1, Len(s) - 1)) ELSE s

Trim(s) == TrimEnd(TrimStart(s))

\* String.prototype.indexOf, 0-based, -1 when absent
IndexOf(s, needle) ==
  LET hits == { i \in 0..(Len(s) - Len(needle)) :
                  SubSeq(s, i + 1, i + Len(needle)) = needle }
  IN IF hits = {} THEN -1 ELSE CHOOSE i \in hits : \A j \in hits : i <= j

\* String.prototype.includes
Includes(s, needle) == IndexOf(s, needle) >= 0

\* String.prototype.slice(start)
SliceFrom(s, start) == SubSeq(s, start + 1, Len(s))

\* s.split(".")[0]
SplitDotFirst(s) ==
  LET i == IndexOf(s, <<".">>)
  IN IF i < 0 THEN s ELSE SubSeq(s, 1, i)

\* Comparison of two strings by UTF-16 code units, as the default sort does:
\* TRUE when a comes strictly before b.
RECURSIVE CodeUnitLess(_, _)
CodeUnitLess(a, b) ==
  IF b = <<>> THEN FALSE
  ELSE IF a = <<>> THEN TRUE
  ELSE IF Head(a) # Head(b) THEN CodeUnit(Head(a)) < CodeUnit(Head(b))
  ELSE CodeUnitLess(Tail(a), Tail(b))

\* Decimal digits of a non-negative integer, as Number.prototype.toString
RECURSIVE Digits(_)
Digits(n) ==
  IF n < 10 THEN <<CharOf(48 + n)>>
  ELSE Digits(n \div 10) \o <<CharOf(48 + (n % 10))>>

NumberToString(n) == IF n < 0 THEN <<"-">> \o Digits(0 - n) ELSE Digits(n)

\* A JavaScript number given as a fraction <<numerator, denominator>>,
\* denominator > 0; Math.floor of it.
MathFloor(q) == q[1] \div q[2]

MathMax(a, b) == IF a >= b THEN a ELSE b

\* left ?? right, for a string, a number and an array
Coalesce(left, right) == IF left = Undefined THEN right ELSE left
CoalesceNumber(left, right) == IF left = UndefinedNumber THEN right ELSE left
CoalesceList(left, right) == IF left = UndefinedList THEN right ELSE left

\* String.prototype.localeCompare for ASCII strings (CLDR root collation):
\* white space and punctuation come before digits, digits before letters;
\* letters compare without case first, and for strings equal up to case the
\* first difference in case decides, lower case first.
CollationOrder ==
  << "\t", " ", "_", "-", ",", ";", ":", "!", "?", ".", "'", "\"", "(", ")", "[", "]",
     "{", "}", "@", "*", "/", "\\", "&", "#", "%", "grave", "^", "+", "<", "=", ">",
     "|", "~", "$", "0", "1", "2", "3", "4", "5", "6", "7", "8", "9",
     "a", "b", "c", "d", "e", "f", "g", "h", "i", "j", "k", "l", "m",
     "n", "o", "p", "q", "r", "s", "t", "u", "v", "w", "x", "y", "z" >>

PrimaryWeightOf ==
  [c \in Chars |-> CHOOSE i \in 1..Len(CollationOrder) : CollationOrder[i] = LowerChar(c)]

PrimaryWeight(c) == PrimaryWeightOf[c]

TertiaryWeight(c) == IF IsUpperChar(c) THEN 1 ELSE 0

\* -1, 0 or 1: the lexicographic comparison of two sequences of numbers
RECURSIVE CompareWeights(_, _)
CompareWeights(a, b) ==
  IF a = <<>> /\ b = <<>> THEN 0
  ELSE IF a = <<>> THEN -1
  ELSE IF b = <<>> THEN 1
  ELSE IF Head(a) < Head(b) THEN -1
  ELSE IF Head(a) > Head(b) THEN 1
  ELSE CompareWeights(Tail(a), Tail(b))

LocaleCompare(a, b) ==
  LET primary == CompareWeights([i \in 1..Len(a) |-> PrimaryWeight(a[i])],
                                [i \in 1..Len(b) |-> PrimaryWeight(b[i])])
  IN IF primary # 0 THEN primary
     ELSE CompareWeights([i \in 1..Len(a) |-> TertiaryWeight(a[i])],
                         [i \in 1..Len(b) |-> TertiaryWeight(b[i])])

\* JSON.stringify of a string: quoted, with the quote, the backslash and the
\* tab escaped.
RECURSIVE JsonEscape(_)
JsonEscape(s) ==
  IF s = <<>> THEN <<>>
  ELSE (IF Head(s) = "\"" THEN <<"\\", "\"">>
        ELSE IF Head(s) = "\\" THEN <<"\\", "\\">>
        ELSE IF Head(s) = "\t" THEN <<"\\", "t">>
        ELSE <<Head(s)>>) \o JsonEscape(Tail(s))

JsonString(s) == <<"\"">> \o JsonEscape(s) \o <<"\"">>

\* JSON.stringify of an array of strings
RECURSIVE JsonItems(_)
JsonItems(list) ==
  IF list = <<>> THEN <<>>
  ELSE IF Len(list) = 1 THEN JsonString(list[1])
  ELSE JsonString(list[1]) \o <<",">> \o JsonItems(Tail(list))

JsonStringArray(list) == <<"[">> \o JsonItems(list) \o <<"]">>

\* "name": as JSON.stringify writes a property name
JsonName(name) == JsonString(name) \o <<":">>

\* ------------------------------------------------------------------------
\* bedrock-discovery.ts: constants and pure functions
\* ------------------------------------------------------------------------
DEFAULT_REFRESH_INTERVAL_SECONDS == 3600
DEFAULT_CONTEXT_WINDOW == 32000
DEFAULT_MAX_TOKENS == 4096
DEFAULT_COST == [input |-> 0, output |-> 0, cacheRead |-> 0, cacheWrite |-> 0]

\* The whole number n as a JavaScript number
Num(n) == <<n, 1>>

\* filter.map((entry) => entry.trim().toLowerCase()).filter((entry) => entry.length > 0)
\* as a set (new Set(...))
NormalizedEntries(filter) ==
  { ToLowerCase(Trim(filter[i])) : i \in 1..Len(filter) } \ {<<>>}

\* Array.from(set).toSorted(): the strings of a set in code-unit order
RECURSIVE ToSortedStrings(_)
ToSortedStrings(set) ==
  IF set = {} THEN <<>>
  ELSE LET least == CHOOSE a \in set : \A b \in set \ {a} : CodeUnitLess(a, b)
       IN <<least>> \o ToSortedStrings(set \ {least})

\* Mutant: the entries are trimmed and lower-cased but kept as given
normalizeProviderFilter_AsGiven(filter) ==
  IF filter = UndefinedList \/ Len(filter) = 0 THEN <<>>
  ELSE [i \in 1..Len(filter) |-> ToLowerCase(Trim(filter[i]))]

normalizeProviderFilter(filter) ==
  IF filter = UndefinedList \/ Len(filter) = 0 THEN <<>>
  ELSE ToSortedStrings(NormalizedEntries(filter))

buildCacheKey(params) ==
  <<"{">> \o JsonName(<<"r", "e", "g", "i", "o", "n">>) \o JsonString(params.region)
  \o <<",">> \o JsonName(<<"p", "r", "o", "v", "i", "d", "e", "r", "F", "i", "l", "t", "e", "r">>)
  \o JsonStringArray(params.providerFilter)
  \o <<",">> \o JsonName(<<"r", "e", "f", "r", "e", "s", "h", "I", "n", "t", "e", "r", "v", "a", "l",
                          "S", "e", "c", "o", "n", "d", "s">>)
  \o NumberToString(params.refreshIntervalSeconds)
  \o <<",">> \o JsonName(<<"d", "e", "f", "a", "u", "l", "t", "C", "o", "n", "t", "e", "x", "t",
                          "W", "i", "n", "d", "o", "w">>)
  \o NumberToString(params.defaultContextWindow)
  \o <<",">> \o JsonName(<<"d", "e", "f", "a", "u", "l", "t", "M", "a", "x", "T", "o", "k", "e", "n", "s">>)
  \o NumberToString(params.defaultMaxTokens)
  \o <<"}">>

TextModality == <<"t", "e", "x", "t">>
ImageModality == <<"i", "m", "a", "g", "e">>

includesTextModalities(modalities) ==
  LET list == CoalesceList(modalities, <<>>)
  IN \E i \in 1..Len(list) : ToLowerCase(list[i]) = TextModality

\* Mutant: the lifecycle status is compared without upper-casing it
isActive_CaseSensitive(summary) ==
  summary.status = <<"A", "C", "T", "I", "V", "E">>

isActive(summary) ==
  IF summary.status # Undefined
  THEN ToUpperCase(summary.status) = <<"A", "C", "T", "I", "V", "E">>
  ELSE FALSE

\* The Set of mapInputModalities in insertion order, as Array.from gives it
RECURSIVE MappedModalities(_, _)
MappedModalities(inputs, mapped) ==
  IF inputs = <<>> THEN mapped
  ELSE LET lower == ToLowerCase(Head(inputs))
           known == lower = TextModality \/ lower = ImageModality
           seen == \E i \in 1..Len(mapped) : mapped[i] = lower
       IN MappedModalities(Tail(inputs),
                           IF known /\ ~seen THEN Append(mapped, lower) ELSE mapped)

mapInputModalities(summary) ==
  LET mapped == MappedModalities(CoalesceList(summary.inputModalities, <<>>), <<>>)
  IN IF Len(mapped) = 0 THEN <<TextModality>> ELSE mapped

inferReasoningSupport(summary) ==
  LET haystack == ToLowerCase(Coalesce(summary.modelId, <<>>) \o <<" ">>
                              \o Coalesce(summary.modelName, <<>>))
  IN \/ Includes(haystack, <<"r", "e", "a", "s", "o", "n", "i", "n", "g">>)
     \/ Includes(haystack, <<"t", "h", "i", "n", "k", "i", "n", "g">>)

resolveDefaultContextWindow(config) ==
  LET value == MathFloor(CoalesceNumber(config.defaultContextWindow,
                                        Num(DEFAULT_CONTEXT_WINDOW)))
  IN IF value > 0 THEN value ELSE DEFAULT_CONTEXT_WINDOW

resolveDefaultMaxTokens(config) ==
  LET value == MathFloor(CoalesceNumber(config.defaultMaxTokens, Num(DEFAULT_MAX_TOKENS)))
  IN IF value > 0 THEN value ELSE DEFAULT_MAX_TOKENS

\* Math.max(0, Math.floor(params.config?.refreshInterval ?? 3600))
resolveRefreshIntervalSeconds(config) ==
  MathMax(0, MathFloor(CoalesceNumber(config.refreshInterval,
                                      Num(DEFAULT_REFRESH_INTERVAL_SECONDS))))

\* summary.providerName ?? summary.modelId.split(".")[0], then ?.trim().toLowerCase();
\* Undefined when there is neither a provider name nor a model id
NormalizedProviderName(summary) ==
  LET providerName ==
        IF summary.providerName # Undefined THEN summary.providerName
        ELSE IF summary.modelId # Undefined THEN SplitDotFirst(summary.modelId)
        ELSE Undefined
  IN IF providerName = Undefined THEN Undefined ELSE ToLowerCase(Trim(providerName))

FilterIncludes(filter, normalized) ==
  \E i \in 1..Len(filter) : filter[i] = normalized

matchesProviderFilter(summary, filter) ==
  IF Len(filter) = 0 THEN TRUE
  ELSE LET normalized == NormalizedProviderName(summary)
       IN IF normalized = Undefined \/ normalized = <<>> THEN FALSE
          ELSE FilterIncludes(filter, normalized)

\* !summary.modelId?.trim()
HasNoModelId(summary) ==
  summary.modelId = Undefined \/ Trim(summary.modelId) = <<>>

shouldIncludeSummary(summary, filter) ==
  IF HasNoModelId(summary) THEN FALSE
  ELSE IF ~matchesProviderFilter(summary, filter) THEN FALSE
  ELSE IF summary.responseStreamingSupported # "true" THEN FALSE
  ELSE IF ~includesTextModalities(summary.outputModalities) THEN FALSE
  ELSE IF ~isActive(summary) THEN FALSE
  ELSE TRUE

\* summary.modelId?.trim() ?? ""
BaseIdOf(summary) ==
  IF summary.modelId = Undefined THEN <<>> ELSE Trim(summary.modelId)

toModelDefinition(summary, defaults, inferenceProfileId) ==
  LET baseId == BaseIdOf(summary)
      id == Coalesce(inferenceProfileId, baseId)
      trimmedName == IF summary.modelName = Undefined THEN Undefined
                     ELSE Trim(summary.modelName)
  IN [ id |-> id,
       name |-> IF trimmedName = Undefined \/ trimmedName = <<>> THEN id ELSE trimmedName,
       reasoning |-> inferReasoningSupport(summary),
       input |-> mapInputModalities(summary),
       cost |-> DEFAULT_COST,
       contextWindow |-> defaults.contextWindow,
       maxTokens |-> defaults.maxTokens ]

\* ------------------------------------------------------------------------
\* buildInferenceProfileMap: what one page of the listing adds to the map
\* ------------------------------------------------------------------------
FoundationModelMarker ==
  <<"f", "o", "u", "n", "d", "a", "t", "i", "o", "n", "-", "m", "o", "d", "e", "l", "/">>

MapSet_KeepFirst(mapping, key, value) ==
  [k \in DOMAIN mapping \cup {key} |-> IF k \in DOMAIN mapping THEN mapping[k] ELSE value]

\* mapping.set(key, value)
MapSet(mapping, key, value) ==
  [k \in DOMAIN mapping \cup {key} |-> IF k = key THEN value ELSE mapping[k]]

\* mapping.get(key)
MapGet(mapping, key) == IF key \in DOMAIN mapping THEN mapping[key] ELSE Undefined

EmptyMap == [k \in {} |-> Undefined]

RECURSIVE ApplyModelRefs(_, _, _)
ApplyModelRefs(mapping, profileId, models) ==
  IF models = <<>> THEN mapping
  ELSE LET arn == Coalesce(Head(models).modelArn, <<>>)
           idx == IndexOf(arn, FoundationModelMarker)
           baseId == IF idx >= 0 THEN Trim(SliceFrom(arn, idx + Len(FoundationModelMarker)))
                     ELSE <<>>
       IN ApplyModelRefs(IF idx >= 0 /\ baseId # <<>>
                         THEN MapSet(mapping, baseId, profileId) ELSE mapping,
                         profileId, Tail(models))

RECURSIVE ApplyProfiles(_, _)
ApplyProfiles(mapping, profiles) ==
  IF profiles = <<>> THEN mapping
  ELSE LET profile == Head(profiles)
           profileId == IF profile.inferenceProfileId = Undefined THEN Undefined
                        ELSE Trim(profile.inferenceProfileId)
       IN ApplyProfiles(IF profileId = Undefined \/ profileId = <<>> THEN mapping
                        ELSE ApplyModelRefs(mapping, profileId, profile.models),
                        Tail(profiles))

\* ------------------------------------------------------------------------
\* The body of discoveryPromise after both listings have arrived
\* ------------------------------------------------------------------------
\* What one iteration of the loop over the model summaries appends to
\* discovered, given the ids registered so far
\* Mutant: a model with a profile is registered under its profile id alone
EmitDefinitions_ProfileOnly(summary, filter, defaults, profileMap, registeredIds) ==
  IF ~shouldIncludeSummary(summary, filter) THEN <<>>
  ELSE <<toModelDefinition(summary, defaults, MapGet(profileMap, BaseIdOf(summary)))>>

EmitDefinitions(summary, filter, defaults, profileMap, registeredIds) ==
  IF ~shouldIncludeSummary(summary, filter) THEN <<>>
  ELSE LET baseId == BaseIdOf(summary)
           profileId == MapGet(profileMap, baseId)
           def == toModelDefinition(summary, defaults, profileId)
       IN IF profileId # Undefined /\ profileId # <<>>
             /\ baseId \notin (registeredIds \cup {def.id})
          THEN <<def, toModelDefinition(summary, defaults, Undefined)>>
          ELSE <<def>>

RECURSIVE DiscoverLoop(_, _, _, _, _, _)
DiscoverLoop(summaries, filter, defaults, profileMap, discovered, registeredIds) ==
  IF summaries = <<>> THEN discovered
  ELSE LET emitted == EmitDefinitions(Head(summaries), filter, defaults, profileMap,
                                      registeredIds)
       IN DiscoverLoop(Tail(summaries), filter, defaults, profileMap,
                       discovered \o emitted,
                       registeredIds \cup { emitted[i].id : i \in 1..Len(emitted) })

\* list.toSorted((a, b) => a.name.localeCompare(b.name)): a stable sort
RECURSIVE InsertByName(_, _)
InsertByName(sorted, def) ==
  IF sorted = <<>> THEN <<def>>
  ELSE IF LocaleCompare(sorted[Len(sorted)].name, def.name) <= 0 THEN Append(sorted, def)
  ELSE Append(InsertByName(SubSeq(sorted, 1, Len(sorted) - 1), def), sorted[Len(sorted)])

RECURSIVE ToSortedByName(_, _)
ToSortedByName(list, sorted) ==
  IF list = <<>> THEN sorted
  ELSE ToSortedByName(Tail(list), InsertByName(sorted, Head(list)))

DiscoverDefinitions(modelSummaries, filter, defaults, profileMap) ==
  ToSortedByName(DiscoverLoop(modelSummaries, filter, defaults, profileMap, <<>>, {}), <<>>)

\* ------------------------------------------------------------------------
\* Inputs: what callers pass and what the remote service answers
\* ------------------------------------------------------------------------
UsEast1 == <<"u", "s", "-", "e", "a", "s", "t", "-", "1">>

\* A BedrockDiscoveryConfig; params.config undefined is the config with every
\* field undefined (the code reads it through config?.field only)
Config(refreshInterval, providerFilter, defaultContextWindow, defaultMaxTokens) ==
  [ refreshInterval |-> refreshInterval, providerFilter |-> providerFilter,
    defaultContextWindow |-> defaultContextWindow, defaultMaxTokens |-> defaultMaxTokens ]

\* refreshInterval 1.5 (effective 1), 0.5 and -1 (effective 0)
CachedConfig == Config(<<3, 2>>, UndefinedList, UndefinedNumber, UndefinedNumber)
HalfSecondConfig == Config(<<1, 2>>, UndefinedList, UndefinedNumber, UndefinedNumber)
NegativeConfig == Config(<<-1, 1>>, UndefinedList, UndefinedNumber, UndefinedNumber)

\* A BedrockModelSummary
Summary(modelId, modelName, providerName, streaming, outputs, inputs, status) ==
  [ modelId |-> modelId, modelName |-> modelName, providerName |-> providerName,
    responseStreamingSupported |-> streaming, outputModalities |-> outputs,
    inputModalities |-> inputs, status |-> status ]

TEXT == <<"T", "E", "X", "T">>
IMAGE == <<"I", "M", "A", "G", "E">>
ACTIVE == <<"A", "C", "T", "I", "V", "E">>
LEGACY == <<"L", "E", "G", "A", "C", "Y">>

IdM1 == <<"a", "i", ".", "m", "1">>
IdM2 == <<"b", "z", ".", "m", "2">>
ProfileM1 == <<"u", "s", ".", "a", "i", ".", "m", "1">>
ProfileM2 == <<"u", "s", ".", "b", "z", ".", "m", "2">>

SummaryM1 == Summary(IdM1, <<"M", "1">>, <<"A", "i">>, "true", <<TEXT>>, <<TEXT, IMAGE>>, ACTIVE)
SummaryM2 == Summary(IdM2, <<"m", "2">>, <<"B", "z">>, "true", <<TEXT>>, <<TEXT>>, ACTIVE)
SummaryLegacy == Summary(<<"a", "i", ".", "m", "0">>, <<"M", "0">>, <<"A", "i">>, "true",
                         <<TEXT>>, <<TEXT>>, LEGACY)

\* An inference profile summary and a page of the profile listing
Arn(baseId) == <<"a", "r", "n", ":">> \o FoundationModelMarker \o baseId

Profile(inferenceProfileId, arns) ==
  [ inferenceProfileId |-> inferenceProfileId,
    models |-> [i \in 1..Len(arns) |-> [modelArn |-> arns[i]]] ]

Page(profiles, nextToken) ==
  [ inferenceProfileSummaries |-> profiles, nextToken |-> nextToken ]

Token1 == <<"t", "1">>

\* A world: the requests callers make (region, config, clock reading) and how
\* many, the listings ListFoundationModels may answer with and the pages
\* ListInferenceProfiles may answer with
World(requests, listings, pages, maxCalls) ==
  [ requests |-> requests, listings |-> listings, pages |-> pages, maxCalls |-> maxCalls ]

PageM1 == Page(<<Profile(ProfileM1, <<Arn(IdM1)>>)>>, Undefined)

\* One cache key, looked up at clock readings below and at an expiry
ProtocolWorld ==
  World({ <<UsEast1, CachedConfig, 0>>, <<UsEast1, CachedConfig, 1000>> },
        { <<SummaryM1, SummaryLegacy>> }, { PageM1 }, MaxCalls)

\* A cached key next to calls with an effective refresh interval of 0
UncachedWorld ==
  World({ <<UsEast1, CachedConfig, 0>>, <<UsEast1, HalfSecondConfig, 0>> },
        { <<SummaryM1, SummaryLegacy>> }, { PageM1 }, MaxCalls)

NegativeWorld ==
  World({ <<UsEast1, NegativeConfig, 0>> },
        { <<SummaryM1, SummaryLegacy>> }, { PageM1 }, MaxCalls)

\* Model summaries that differ from SummaryM1 in the fields the filter reads
FilterSummaries ==
  { SummaryM1,
    [SummaryM1 EXCEPT !.modelId = Undefined],
    [SummaryM1 EXCEPT !.modelId = <<>>],
    [SummaryM1 EXCEPT !.modelId = <<" ", "\t">>],
    [SummaryM1 EXCEPT !.modelId = <<" ">> \o IdM1 \o <<" ">>],
    [SummaryM1 EXCEPT !.modelName = Undefined],
    [SummaryM1 EXCEPT !.modelName = <<" ">>],
    [SummaryM1 EXCEPT !.providerName = Undefined],
    [SummaryM1 EXCEPT !.providerName = <<>>],
    [SummaryM1 EXCEPT !.providerName = <<" ", "A", "I", " ">>],
    [SummaryM1 EXCEPT !.providerName = <<"B", "z">>],
    [SummaryM1 EXCEPT !.providerName = Undefined, !.modelId = <<"A", "i">>],
    [SummaryM1 EXCEPT !.providerName = Undefined, !.modelId = <<" ">> \o IdM1],
    [SummaryM1 EXCEPT !.providerName = Undefined, !.modelId = IdM2],
    [SummaryM1 EXCEPT !.responseStreamingSupported = "false"],
    [SummaryM1 EXCEPT !.responseStreamingSupported = "undefined"],
    [SummaryM1 EXCEPT !.outputModalities = UndefinedList],
    [SummaryM1 EXCEPT !.outputModalities = <<>>],
    [SummaryM1 EXCEPT !.outputModalities = <<IMAGE>>],
    [SummaryM1 EXCEPT !.outputModalities = <<TextModality>>],
    [SummaryM1 EXCEPT !.outputModalities = <<IMAGE, <<"T", "e", "x", "t">>>>],
    [SummaryM1 EXCEPT !.status = Undefined],
    [SummaryM1 EXCEPT !.status = <<"a", "c", "t", "i", "v", "e">>],
    [SummaryM1 EXCEPT !.status = <<"A", "c", "t", "i", "v", "e">>],
    [SummaryM1 EXCEPT !.status = LEGACY] }

\* Provider filters as configured: none, one entry to trim and lower-case,
\* entries repeated up to case, and a blank entry only
ProviderFilters ==
  { UndefinedList,
    <<<<" ", "A", "i", " ">>>>,
    <<<<"b", "z">>, <<"A", "I">>, <<"a", "i">>>>,
    <<<<" ">>>> }

FilteredConfig(providerFilter) ==
  Config(<<3, 2>>, providerFilter, UndefinedNumber, UndefinedNumber)

\* A model whose id is the profile id of another model
SummaryAlias == Summary(ProfileM1, <<"M", "1">>, <<"A", "i">>, "true", <<TEXT>>, <<TEXT>>, ACTIVE)

CoreSummaries == { SummaryM1, SummaryM2, SummaryAlias, SummaryLegacy }

\* The sequences of at most n elements of set
SeqsUpTo(set, n) == UNION { [1..k -> set] : k \in 0..n }

\* Profile listings of one page: a profile for M1, one profile for M1 and M2,
\* and a profile for M1 named like the model M2
PageShared == Page(<<Profile(ProfileM1, <<Arn(IdM1), Arn(IdM2)>>)>>, Undefined)
PageCross == Page(<<Profile(IdM2, <<Arn(IdM1)>>)>>, Undefined)

\* Profile listings of several pages: a page with a continuation token and a
\* last page
PageM1More == Page(<<Profile(ProfileM1, <<Arn(IdM1)>>)>>, Token1)
PageM2Last == Page(<<Profile(ProfileM2, <<Arn(IdM2)>>)>>, Undefined)

\* A last page (its token is the empty string) that maps both models anew,
\* the second one twice, next to a profile without id and a reference
\* without base model id
PageRemapped ==
  Page(<< Profile(ProfileM2, <<Arn(IdM1), Arn(IdM2)>>),
          Profile(<<" ">>, <<Arn(IdM1)>>),
          Profile(ProfileM1, << <<"a", "r", "n", ":", "x">>, Arn(IdM2) >>) >>, <<>>)

\* Calls for one cached key under a profile listing of several pages
LiveWorld ==
  World({ <<UsEast1, CachedConfig, 0>> },
        { <<SummaryM1>> }, { PageM1More, PageM2Last }, MaxKeyCalls)

\* Calls with an effective refresh interval of 0 under the same listing
LiveUncachedWorld ==
  World({ <<UsEast1, HalfSecondConfig, 0>> }, { <<SummaryM1>> }, { PageM1 }, MaxKeyCalls)

\* The worlds of one cached call: every filter summary alone under every
\* provider filter; every short listing of the core summaries under every
\* one-page profile listing; two models under a paged profile listing; and
\* one model looked up again while its fetch is pending.
CatalogWorlds ==
  { World({ <<UsEast1, FilteredConfig(filter), 0>> }, { <<summary>> }, { PageM1 },
          MaxCatalogCalls) :
      filter \in ProviderFilters, summary \in FilterSummaries }
  \cup
  { World({ <<UsEast1, CachedConfig, 0>> }, { listing }, { page }, MaxCatalogCalls) :
      listing \in SeqsUpTo(CoreSummaries, MaxSummaries),
      page \in { PageM1, PageShared, PageCross } }
  \cup
  { World({ <<UsEast1, CachedConfig, 0>> }, { <<SummaryM1, SummaryM2>> },
          { PageM1More, PageM2Last }, MaxCatalogCalls),
    World({ <<UsEast1, CachedConfig, 0>> }, { <<SummaryM1, SummaryM2>> },
          { PageM1More, PageRemapped }, MaxCatalogCalls),
    World({ <<UsEast1, CachedConfig, 0>> }, { <<SummaryM1>> }, { PageM1 }, MaxKeyCalls) }

\* Requests that differ from the first in one parameter: the region, the
\* refresh interval (1 and 1.5 are both 1 second, 2 is not), the provider
\* filter (the same set in other order and case, one entry that reads like
\* two, no filter, blank entries only), the default context window and the
\* default max tokens (4096.5 is 4096, the default)
UsWest2 == <<"u", "s", "-", "w", "e", "s", "t", "-", "2">>

FilterAiBz == <<<<"a", "i">>, <<"b", "z">>>>

KeyConfig == Config(<<3, 2>>, FilterAiBz, UndefinedNumber, UndefinedNumber)

KeyRequests ==
  { <<UsEast1, KeyConfig, 0>>,
    <<UsWest2, KeyConfig, 0>>,
    <<UsEast1, KeyConfig, 2000>>,
    <<UsEast1, [KeyConfig EXCEPT !.refreshInterval = <<1, 1>>], 0>>,
    <<UsEast1, [KeyConfig EXCEPT !.refreshInterval = <<2, 1>>], 0>>,
    <<UsEast1, [KeyConfig EXCEPT !.providerFilter =
                  << <<" ", "B", "Z">>, <<"A", "i", " ">>, <<" ">>, <<"a", "i">> >>], 0>>,
    <<UsEast1, [KeyConfig EXCEPT !.providerFilter =
                  << <<"a", "i", "\"", ",", "\"", "b", "z">> >>], 0>>,
    <<UsEast1, [KeyConfig EXCEPT !.providerFilter = UndefinedList], 0>>,
    <<UsEast1, [KeyConfig EXCEPT !.providerFilter = << <<" ">> >>], 0>>,
    <<UsEast1, [KeyConfig EXCEPT !.defaultContextWindow = <<16000, 1>>], 0>>,
    <<UsEast1, [KeyConfig EXCEPT !.defaultMaxTokens = <<8193, 2>>], 0>> }

\* The worlds of two requests, equal or not
KeyWorlds ==
  { World({ first, second }, { <<SummaryM1>> }, { PageM1 }, MaxKeyCalls) :
      first \in KeyRequests, second \in KeyRequests }

\* ------------------------------------------------------------------------
\* State
\* ------------------------------------------------------------------------
VARIABLES
  world,                   \* the inputs of this behaviour (never changes)
  discoveryCache,          \* the Map discoveryCache: cache key -> entry
  hasLoggedBedrockError,   \* the module's log-once flag
  promises,                \* every discoveryPromise created, in creation order
  calls,                   \* every discoverBedrockModels call, in call order
  warnings,                \* one entry per log.warn call: the number of resets before it
  resets,                  \* resetBedrockDiscoveryCacheForTest calls made
  env,                     \* process.env: variable name -> value
  normalized,              \* normalizeBedrockModel calls made: argument -> result
  providers,               \* every createBedrockEmbeddingProvider call, in call order
  invocations,             \* every runtimeClient.send(InvokeModelCommand), in send order
  embeds,                  \* every embedQuery / embedBatch call, in call order
  jobs                     \* the job queue: embedBatch calls whose Promise.all reaction waits to run

\* The state of the embedding adapter
embeddingVars == <<env, normalized, providers, invocations, embeds, jobs>>

vars == <<world, discoveryCache, hasLoggedBedrockError, promises, calls, warnings, resets, embeddingVars>>

\* No embedding provider was asked for: process.env holds no variable
EmbeddingIdle ==
  /\ env = [name \in {} |-> Undefined]
  /\ normalized = [model \in {} |-> Undefined]
  /\ providers = <<>>
  /\ invocations = <<>>
  /\ embeds = <<>>
  /\ jobs = <<>>

\* A BedrockDiscoveryCacheEntry; inFlight is the index of a promise, 0 when
\* the entry has none
ValueEntry(expiresAt, value) ==
  [expiresAt |-> expiresAt, hasValue |-> TRUE, value |-> value, inFlight |-> 0]

InFlightEntry(expiresAt, promise) ==
  [expiresAt |-> expiresAt, hasValue |-> FALSE, value |-> <<>>, inFlight |-> promise]

\* discoveryCache.set(key, entry) and discoveryCache.delete(key)
CacheSet(cache, key, entry) ==
  [k \in DOMAIN cache \cup {key} |-> IF k = key THEN entry ELSE cache[k]]

CacheDelete(cache, key) == [k \in DOMAIN cache \ {key} |-> cache[k]]

EmptyCache == [k \in {} |-> InFlightEntry(0, 0)]

InitIn(w) ==
  /\ world = w
  /\ discoveryCache = EmptyCache
  /\ hasLoggedBedrockError = FALSE
  /\ promises = <<>>
  /\ calls = <<>>
  /\ warnings = <<>>
  /\ resets = 0
  /\ EmbeddingIdle

\* ------------------------------------------------------------------------
\* discoverBedrockModels
\* ------------------------------------------------------------------------
\* Mutant: an interval of 0 is cached too
CachingEnabled_AtZero(refreshIntervalSeconds) == refreshIntervalSeconds >= 0

\* refreshIntervalSeconds > 0: the cache is consulted and written
CachingEnabled(refreshIntervalSeconds) == refreshIntervalSeconds > 0

\* discoveryCache.get(cacheKey): the entry, or the entry of an absent key
\* (no value, no in-flight promise)
CacheGet(cache, key) == IF key \in DOMAIN cache THEN cache[key] ELSE InFlightEntry(0, 0)

\* Mutant: an entry is still fresh at its expiry time
IsFresh_AtExpiry(cached, now) == cached.hasValue /\ cached.expiresAt >= now

\* cached?.value && cached.expiresAt > now
IsFresh(cached, now) == cached.hasValue /\ cached.expiresAt > now

\* Mutant: the in-flight promise of an entry is never joined
HasInFlight_Never(cached) == FALSE

\* cached?.inFlight
HasInFlight(cached) == cached.inFlight # 0

\* now + refreshIntervalSeconds * 1000
ExpiresAt(now, refreshIntervalSeconds) == now + refreshIntervalSeconds * 1000

\* What a call that returned the promise p settles to: an async function that
\* returns a promise adopts its state
AdoptedOutcome(p) ==
  IF p.state = "fulfilled" THEN [state |-> "resolved", value |-> p.value]
  ELSE IF p.state = "rejected" THEN [state |-> "rejected", value |-> <<>>]
  ELSE [state |-> "pending", value |-> <<>>]

\* return []
FailureResult == <<>>

\* A call and what it has computed when it returns or first awaits; epoch is
\* the number of resets before it
NewCall(params, key, interval, now, kind, promise, outcome) ==
  [ region |-> params.region, config |-> params.config, epoch |-> resets,
    cacheKey |-> key, refreshIntervalSeconds |-> interval, now |-> now, kind |-> kind,
    promise |-> promise,
    state |-> outcome.state, value |-> outcome.value ]

\* A discoveryPromise just created: clientFactory was called, ListFoundationModels
\* and the first ListInferenceProfiles request (without token) were sent.
NewPromise(key, interval, filter, defaults, now) ==
  [ cacheKey |-> key, refreshIntervalSeconds |-> interval, providerFilter |-> filter,
    defaults |-> defaults, now |-> now,
    models |-> "pending", modelSummaries |-> <<>>,
    profiles |-> "paging", profileFailed |-> FALSE, requests |-> <<Undefined>>,
    responses |-> <<>>,
    profileMap |-> EmptyMap,
    state |-> "pending", value |-> <<>>, handled |-> FALSE ]

\* The synchronous part of a call, up to its first await or its return
Discover(region, config, now) ==
  LET refreshIntervalSeconds == resolveRefreshIntervalSeconds(config)
      providerFilter == normalizeProviderFilter(config.providerFilter)
      defaultContextWindow == resolveDefaultContextWindow(config)
      defaultMaxTokens == resolveDefaultMaxTokens(config)
      cacheKey == buildCacheKey([ region |-> region, providerFilter |-> providerFilter,
                                  refreshIntervalSeconds |-> refreshIntervalSeconds,
                                  defaultContextWindow |-> defaultContextWindow,
                                  defaultMaxTokens |-> defaultMaxTokens ])
      cached == CacheGet(discoveryCache, cacheKey)
      started == Len(promises) + 1
      params == [ region |-> region, config |-> config ]
  IN /\ Len(calls) + resets < world.maxCalls
     /\ IF CachingEnabled(refreshIntervalSeconds) /\ IsFresh(cached, now)
        THEN /\ calls' = Append(calls, NewCall(params, cacheKey, refreshIntervalSeconds, now, "cached", 0,
                                  [state |-> "resolved", value |-> cached.value]))
             /\ UNCHANGED <<discoveryCache, promises>>
        ELSE IF CachingEnabled(refreshIntervalSeconds) /\ HasInFlight(cached)
        THEN /\ calls' = Append(calls, NewCall(params, cacheKey, refreshIntervalSeconds, now, "joined",
                                  cached.inFlight,
                                  [state |-> "pending", value |-> <<>>]))
             /\ UNCHANGED <<discoveryCache, promises>>
        ELSE /\ promises' = Append(promises,
                              NewPromise(cacheKey, refreshIntervalSeconds, providerFilter,
                                         [ contextWindow |-> defaultContextWindow,
                                           maxTokens |-> defaultMaxTokens ], now))
             /\ discoveryCache' =
                  IF CachingEnabled(refreshIntervalSeconds)
                  THEN CacheSet(discoveryCache, cacheKey,
                                InFlightEntry(ExpiresAt(now, refreshIntervalSeconds), started))
                  ELSE discoveryCache
             /\ calls' = Append(calls, NewCall(params, cacheKey, refreshIntervalSeconds, now, "started",
                                  started,
                                  [state |-> "pending", value |-> <<>>]))
     /\ UNCHANGED <<world, hasLoggedBedrockError, warnings, resets, embeddingVars>>

\* The body of discoveryPromise after await Promise.all([...]): Promise.all
\* rejects as soon as ListFoundationModels has failed, and resolves once both
\* listings are there; the body then runs to its end and the promise is
\* fulfilled with the sorted definitions.
SettledPromise_ModelsOnly(p) ==
  IF p.models = "failed" THEN [p EXCEPT !.state = "rejected"]
  ELSE IF p.models = "ok"
  THEN [p EXCEPT !.state = "fulfilled",
                 !.value = DiscoverDefinitions(p.modelSummaries, p.providerFilter,
                                               p.defaults, p.profileMap)]
  ELSE p

SettledPromise(p) ==
  IF p.models = "failed" THEN [p EXCEPT !.state = "rejected"]
  ELSE IF p.models = "ok" /\ p.profiles = "done"
  THEN [p EXCEPT !.state = "fulfilled",
                 !.value = DiscoverDefinitions(p.modelSummaries, p.providerFilter,
                                               p.defaults, p.profileMap)]
  ELSE p

\* A remote call of promise p has completed and left it as updated: the
\* body of discoveryPromise continues when Promise.all has settled. The
\* calls waiting for discoveryPromise continue in later jobs.
Completed(p, updated) ==
  \E settled \in { IF updated.state = "pending" THEN SettledPromise(updated) ELSE updated } :
    /\ promises' = [promises EXCEPT ![p] = settled]
    /\ UNCHANGED <<world, discoveryCache, hasLoggedBedrockError, calls, warnings, resets, embeddingVars>>

\* client.send(new ListFoundationModelsCommand({})) resolves
ListFoundationModelsOk(p, listing) ==
  /\ promises[p].models = "pending"
  /\ Completed(p, [promises[p] EXCEPT !.models = "ok", !.modelSummaries = listing])

\* client.send(new ListFoundationModelsCommand({})) rejects
ListFoundationModelsFail(p) ==
  /\ promises[p].models = "pending"
  /\ Completed(p, [promises[p] EXCEPT !.models = "failed"])

\* A page of ListInferenceProfiles arrives: its profiles enter the map, and the
\* next page is requested with the page's token if it has one
HasNextToken(page) == page.nextToken # Undefined /\ page.nextToken # <<>>

ListInferenceProfilesOk(p, page) ==
  /\ promises[p].profiles = "paging"
  /\ HasNextToken(page) => Len(promises[p].requests) < MaxPages
  /\ Completed(p, [promises[p] EXCEPT
          !.profileMap = ApplyProfiles(@, page.inferenceProfileSummaries),
          !.responses = Append(@, page),
          !.requests = IF HasNextToken(page) THEN Append(@, page.nextToken) ELSE @,
          !.profiles = IF HasNextToken(page) THEN "paging" ELSE "done"])

\* Mutant: no try/catch around the listing, its failure rejects the discovery
AfterProfileFailure_Rethrown(p) ==
  [p EXCEPT !.profiles = "done", !.profileFailed = TRUE, !.state = "rejected"]

\* A ListInferenceProfiles request rejects: the catch block swallows the error
\* and buildInferenceProfileMap returns the mapping as it stands
AfterProfileFailure(p) == [p EXCEPT !.profiles = "done", !.profileFailed = TRUE]

ListInferenceProfilesFail(p) ==
  /\ promises[p].profiles = "paging"
  /\ Completed(p, AfterProfileFailure(promises[p]))

\* The call that created the promise resumes after await discoveryPromise
StarterOf(p) == CHOOSE c \in 1..Len(calls) : calls[c].kind = "started" /\ calls[c].promise = p

\* Mutant: the continuation of a successful fetch leaves the entry as it is
CacheAfterSuccess_NotStored(cache, p) == cache

CacheAfterSuccess(cache, p) ==
  IF CachingEnabled(p.refreshIntervalSeconds)
  THEN CacheSet(cache, p.cacheKey,
                ValueEntry(ExpiresAt(p.now, p.refreshIntervalSeconds), p.value))
  ELSE cache

\* Mutant: the failure is cached as an empty list
CacheAfterFailure_EmptyValue(cache, p) ==
  IF CachingEnabled(p.refreshIntervalSeconds)
  THEN CacheSet(cache, p.cacheKey,
                ValueEntry(ExpiresAt(p.now, p.refreshIntervalSeconds), FailureResult))
  ELSE cache

\* Mutant: the entry of a failed fetch is left in the cache
CacheAfterFailure_Kept(cache, p) == cache

CacheAfterFailure(cache, p) ==
  IF CachingEnabled(p.refreshIntervalSeconds) THEN CacheDelete(cache, p.cacheKey) ELSE cache

\* Mutant: no catch block, the call rejects with the promise
StarterOutcome_NoCatch(p) ==
  IF p.state = "fulfilled" THEN [state |-> "resolved", value |-> p.value]
  ELSE [state |-> "rejected", value |-> <<>>]

\* What the call returns after the await: the value, or [] from the catch block
StarterOutcome(p) ==
  IF p.state = "fulfilled" THEN [state |-> "resolved", value |-> p.value]
  ELSE [state |-> "resolved", value |-> FailureResult]

\* Mutant: every failure is logged
LogsWarning_Always(hasLogged) == TRUE

\* if (!hasLoggedBedrockError)
LogsWarning(hasLogged) == ~hasLogged

ResumeAfterAwait(p) ==
  /\ promises[p].state # "pending"
  /\ ~promises[p].handled
  /\ promises' = [promises EXCEPT ![p].handled = TRUE]
  /\ calls' = [calls EXCEPT ![StarterOf(p)].state = StarterOutcome(promises[p]).state,
                            ![StarterOf(p)].value = StarterOutcome(promises[p]).value]
  /\ IF promises[p].state = "fulfilled"
     THEN /\ discoveryCache' = CacheAfterSuccess(discoveryCache, promises[p])
          /\ UNCHANGED <<hasLoggedBedrockError, warnings>>
     ELSE /\ discoveryCache' = CacheAfterFailure(discoveryCache, promises[p])
          /\ hasLoggedBedrockError' = TRUE
          /\ warnings' = IF LogsWarning(hasLoggedBedrockError) THEN Append(warnings, resets)
                         ELSE warnings
  /\ UNCHANGED <<world, resets, embeddingVars>>

\* The promise of a call that returned cached.inFlight settles: it adopts
\* discoveryPromise in a job that comes after the continuation of the call
\* that started the fetch, and after those of the calls that joined before it
JoinedSettles(c) ==
  /\ calls[c].kind = "joined" /\ calls[c].state = "pending"
  /\ promises[calls[c].promise].handled
  /\ \A d \in 1..(c - 1) :
       (calls[d].kind = "joined" /\ calls[d].promise = calls[c].promise) => calls[d].state # "pending"
  /\ calls' = [calls EXCEPT ![c].state = AdoptedOutcome(promises[calls[c].promise]).state,
                            ![c].value = AdoptedOutcome(promises[calls[c].promise]).value]
  /\ UNCHANGED <<world, discoveryCache, hasLoggedBedrockError, promises, warnings, resets, embeddingVars>>

\* Mutant: the reset leaves the entries in the cache
CacheAfterReset_Kept(cache) == cache

\* discoveryCache.clear()
CacheAfterReset(cache) == EmptyCache

resetBedrockDiscoveryCacheForTest ==
  /\ Len(calls) + resets < world.maxCalls
  /\ discoveryCache' = CacheAfterReset(discoveryCache)
  /\ hasLoggedBedrockError' = FALSE
  /\ resets' = resets + 1
  /\ UNCHANGED <<world, promises, calls, warnings, embeddingVars>>

\* ------------------------------------------------------------------------
\* Specifications
\* ------------------------------------------------------------------------
Next ==
  \/ \E request \in world.requests : Discover(request[1], request[2], request[3])
  \/ \E p \in 1..Len(promises), listing \in world.listings : ListFoundationModelsOk(p, listing)
  \/ \E p \in 1..Len(promises) : ListFoundationModelsFail(p)
  \/ \E p \in 1..Len(promises), page \in world.pages : ListInferenceProfilesOk(p, page)
  \/ \E p \in 1..Len(promises) : ListInferenceProfilesFail(p)
  \/ \E p \in 1..Len(promises) : ResumeAfterAwait(p)
  \/ \E c \in 1..Len(calls) : JoinedSettles(c)

\* discoverBedrockModels calls for one cache key
Init == InitIn(ProtocolWorld)

Spec == Init /\ [][Next]_vars

\* Cached and uncached discoverBedrockModels calls
InitUncached == InitIn(UncachedWorld) \/ InitIn(NegativeWorld)

SpecUncached == InitUncached /\ [][Next]_vars

\* Two requests, with equal or different cache keys
InitKeys == \E w \in KeyWorlds : InitIn(w)

SpecKeys == InitKeys /\ [][Next]_vars

\* A ListFoundationModels or ListInferenceProfiles request awaits its response
RemoteCallOutstanding ==
  \E p \in 1..Len(promises) :
    promises[p].models = "pending" \/ promises[p].profiles = "paging"

\* The continuation of a settled discovery promise is a queued job
ContinuationRuns ==
  \/ \E p \in 1..Len(promises) : ResumeAfterAwait(p)
  \/ \E c \in 1..Len(calls) : JoinedSettles(c)

\* Every remote call completes, by success or by failure, and the job queue
\* runs the continuations
Fairness == []<>(~RemoteCallOutstanding) /\ WF_vars(ContinuationRuns)

InitLive == InitIn(LiveWorld) \/ InitIn(LiveUncachedWorld)

SpecLive == InitLive /\ [][Next]_vars /\ Fairness

\* One cached call in each world of listings
InitCatalog == \E w \in CatalogWorlds : InitIn(w)

SpecCatalog == InitCatalog /\ [][Next]_vars

\* discoverBedrockModels calls and resets of the cache
NextReset == Next \/ resetBedrockDiscoveryCacheForTest

InitReset == InitIn(UncachedWorld)

SpecReset == InitReset /\ [][NextReset]_vars

\* The same, and a cached key looked up below and at its expiry time
ResetClockWorld ==
  World({ <<UsEast1, CachedConfig, 0>>, <<UsEast1, CachedConfig, 1000>> },
        { <<SummaryM1>> }, { PageM1 }, MaxCalls)

InitResetClock == InitIn(ResetClockWorld) \/ InitIn(UncachedWorld)

SpecResetClock == InitResetClock /\ [][NextReset]_vars

\* ------------------------------------------------------------------------
\* The Bedrock embedding adapter: model ids
\* ------------------------------------------------------------------------
BedrockPrefix == <<"b", "e", "d", "r", "o", "c", "k", "/">>

DEFAULT_BEDROCK_EMBEDDING_MODEL ==
  <<"a", "m", "a", "z", "o", "n", ".", "n", "o", "v", "a", "-", "2", "-", "m", "u", "l", "t", "i", "m", "o", "d", "a", "l", "-", "e", "m", "b", "e", "d", "d", "i", "n", "g", "s", "-", "v", "1", ":", "0">>

DEFAULT_BEDROCK_REGION == <<"u", "s", "-", "e", "a", "s", "t", "-", "1">>

\* String.prototype.startsWith
StartsWith(s, prefix) == Len(s) >= Len(prefix) /\ SubSeq(s, 1, Len(prefix)) = prefix

normalizeBedrockModel_KeepPrefix(model) ==
  IF Trim(model) = <<>> THEN DEFAULT_BEDROCK_EMBEDDING_MODEL ELSE Trim(model)

\* normalizeBedrockModel: trim; the default for the empty string; a leading
\* "bedrock/" is cut off and what follows is returned as it is
normalizeBedrockModel(model) ==
  LET trimmed == Trim(model)
  IN IF trimmed = <<>> THEN DEFAULT_BEDROCK_EMBEDDING_MODEL
     ELSE IF StartsWith(trimmed, BedrockPrefix) THEN SliceFrom(trimmed, Len(BedrockPrefix))
     ELSE trimmed

\* The pieces model arguments are made of, and the arguments of up to
\* MaxModelParts pieces
ModelParts == { <<" ">>, <<"\t">>, <<"a">>, <<"/">>, BedrockPrefix }

RECURSIVE JoinParts(_)
JoinParts(parts) == IF parts = <<>> THEN <<>> ELSE Head(parts) \o JoinParts(Tail(parts))

ModelInputs == { JoinParts(parts) : parts \in SeqsUpTo(ModelParts, MaxModelParts) }

\* The world of one string X: normalizeBedrockModel is applied to X and to
\* "bedrock/" + X
NormalizeWorld(X) == [ input |-> X, models |-> { X, BedrockPrefix \o X } ]

\* The state with the adapter's inputs w and the environment e, before any call
InitEmbedding(w, e) ==
  /\ world = w
  /\ discoveryCache = EmptyCache
  /\ hasLoggedBedrockError = FALSE
  /\ promises = <<>>
  /\ calls = <<>>
  /\ warnings = <<>>
  /\ resets = 0
  /\ env = e
  /\ normalized = [model \in {} |-> Undefined]
  /\ providers = <<>>
  /\ invocations = <<>>
  /\ embeds = <<>>
  /\ jobs = <<>>

discoveryVars == <<discoveryCache, hasLoggedBedrockError, promises, calls, warnings, resets>>

\* A call normalizeBedrockModel(model); its result is recorded
NormalizeModel(model) ==
  /\ model \notin DOMAIN normalized
  /\ normalized' = [m \in DOMAIN normalized \cup {model} |->
                      IF m = model THEN normalizeBedrockModel(model) ELSE normalized[m]]
  /\ UNCHANGED <<world, discoveryVars, env, providers, invocations, embeds, jobs>>

NextNormalize == \E model \in world.models : NormalizeModel(model)

InitNormalize == \E X \in ModelInputs : InitEmbedding(NormalizeWorld(X), [name \in {} |-> Undefined])

SpecNormalize == InitNormalize /\ [][NextNormalize]_vars

\* ------------------------------------------------------------------------
\* The Bedrock embedding adapter: creation of a provider
\* ------------------------------------------------------------------------
\* process.env.NAME: undefined when the variable is not set
EnvGet(name) == IF name \in DOMAIN env THEN env[name] ELSE Undefined

ProcessEnv(region, defaultRegion, accessKeyId, secretAccessKey, bearer, profile) ==
  [ AWS_REGION |-> region, AWS_DEFAULT_REGION |-> defaultRegion,
    AWS_ACCESS_KEY_ID |-> accessKeyId, AWS_SECRET_ACCESS_KEY |-> secretAccessKey,
    AWS_BEARER_TOKEN_BEDROCK |-> bearer, AWS_PROFILE |-> profile ]

\* v?.trim()
OptionalTrim(v) == IF v = Undefined THEN Undefined ELSE Trim(v)

\* A string or undefined as a condition: undefined and "" are falsy
Truthy(v) == v # Undefined /\ v # <<>>

\* a || b
OrElse(a, b) == IF Truthy(a) THEN a ELSE b

\* The options of createBedrockEmbeddingProvider: options.model and
\* options.config.models?.providers?.["amazon-bedrock"]?.region
Options(model, region) == [ model |-> model, region |-> region ]

resolveBedrockRegion_DefaultRegionFirst(options) ==
  OrElse(OptionalTrim(options.region),
         OrElse(OptionalTrim(EnvGet("AWS_DEFAULT_REGION")),
                OrElse(OptionalTrim(EnvGet("AWS_REGION")), DEFAULT_BEDROCK_REGION)))

resolveBedrockRegion(options) ==
  OrElse(OptionalTrim(options.region),
         OrElse(OptionalTrim(EnvGet("AWS_REGION")),
                OrElse(OptionalTrim(EnvGet("AWS_DEFAULT_REGION")), DEFAULT_BEDROCK_REGION)))

\* validateCredentials: TRUE when it returns, FALSE when it throws
hasIamCreds ==
  /\ Truthy(OptionalTrim(EnvGet("AWS_ACCESS_KEY_ID")))
  /\ Truthy(OptionalTrim(EnvGet("AWS_SECRET_ACCESS_KEY")))

hasBearer == Truthy(OptionalTrim(EnvGet("AWS_BEARER_TOKEN_BEDROCK")))

hasProfile == Truthy(OptionalTrim(EnvGet("AWS_PROFILE")))

validateCredentials == hasIamCreds \/ hasBearer \/ hasProfile

\* The object literal BEDROCK_MODEL_REGISTRY: its own keys
BEDROCK_MODEL_REGISTRY ==
  [ id \in { DEFAULT_BEDROCK_EMBEDDING_MODEL } |->
      [ maxInputChars |-> 8192, defaultDimension |-> 1024,
        buildRequest |-> "buildNova2Request", parseResponse |-> "parseNova2Response" ] ]

\* The property names an object literal inherits from Object.prototype
ObjectPrototypeMembers ==
  { <<"c", "o", "n", "s", "t", "r", "u", "c", "t", "o", "r">>,
    <<"t", "o", "S", "t", "r", "i", "n", "g">>,
    <<"t", "o", "L", "o", "c", "a", "l", "e", "S", "t", "r", "i", "n", "g">>,
    <<"v", "a", "l", "u", "e", "O", "f">>,
    <<"h", "a", "s", "O", "w", "n", "P", "r", "o", "p", "e", "r", "t", "y">>,
    <<"i", "s", "P", "r", "o", "t", "o", "t", "y", "p", "e", "O", "f">>,
    <<"p", "r", "o", "p", "e", "r", "t", "y", "I", "s", "E", "n", "u", "m", "e", "r", "a", "b", "l", "e">>,
    <<"_", "_", "p", "r", "o", "t", "o", "_", "_">>,
    <<"_", "_", "d", "e", "f", "i", "n", "e", "G", "e", "t", "t", "e", "r", "_", "_">>,
    <<"_", "_", "d", "e", "f", "i", "n", "e", "S", "e", "t", "t", "e", "r", "_", "_">>,
    <<"_", "_", "l", "o", "o", "k", "u", "p", "G", "e", "t", "t", "e", "r", "_", "_">>,
    <<"_", "_", "l", "o", "o", "k", "u", "p", "S", "e", "t", "t", "e", "r", "_", "_">> }

\* BEDROCK_MODEL_REGISTRY[modelId]: the configuration under an own key, the
\* member of Object.prototype under an inherited name (a function or an
\* object: truthy, and without defaultDimension, buildRequest and
\* parseResponse), undefined otherwise
RegistryLookup(modelId) ==
  IF modelId \in DOMAIN BEDROCK_MODEL_REGISTRY
  THEN [ kind |-> "config", config |-> BEDROCK_MODEL_REGISTRY[modelId] ]
  ELSE IF modelId \in ObjectPrototypeMembers
  THEN [ kind |-> "inherited", config |-> Undefined ]
  ELSE [ kind |-> "undefined", config |-> Undefined ]

\* Object.keys(BEDROCK_MODEL_REGISTRY)
SupportedModels == DOMAIN BEDROCK_MODEL_REGISTRY

\* What createBedrockEmbeddingProvider(options) settles to
CreatedProvider(options) ==
  LET modelId == normalizeBedrockModel(options.model)
      modelConfig == RegistryLookup(modelId)
  IN IF modelConfig.kind = "undefined"
     THEN [ options |-> options, outcome |-> "UnsupportedModel", modelId |-> modelId,
            supported |-> SupportedModels, region |-> Undefined, modelConfig |-> modelConfig ]
     ELSE IF ~validateCredentials
     THEN [ options |-> options, outcome |-> "MissingCredentials", modelId |-> modelId,
            supported |-> SupportedModels, region |-> Undefined, modelConfig |-> modelConfig ]
     ELSE [ options |-> options, outcome |-> "created", modelId |-> modelId,
            supported |-> SupportedModels, region |-> resolveBedrockRegion(options),
            modelConfig |-> modelConfig ]

\* A call createBedrockEmbeddingProvider(options): it has no await and sends
\* nothing
createBedrockEmbeddingProvider(options) ==
  /\ Len(providers) < MaxProviders
  /\ providers' = Append(providers, CreatedProvider(options))
  /\ UNCHANGED <<world, discoveryVars, env, normalized, invocations, embeds, jobs>>

\* Values of a region source: not set, empty, blank, and a padded name
RegionValues(name) == { Undefined, <<>>, <<" ", "\t">>, <<" ">> \o name \o <<" ">> }

ApSoutheast1 == <<"a", "p", "-", "s", "o", "u", "t", "h", "e", "a", "s", "t", "-", "1">>
EuWest1 == <<"e", "u", "-", "w", "e", "s", "t", "-", "1">>
EuCentral1 == <<"e", "u", "-", "c", "e", "n", "t", "r", "a", "l", "-", "1">>

\* Values of a credential variable: not set, empty, blank, set
CredentialValues == { Undefined, <<>>, <<" ">>, <<"k">> }

\* Environments that differ in the region variables (a profile is set)
RegionEnvs ==
  { ProcessEnv(region, defaultRegion, Undefined, Undefined, Undefined, <<"p">>) :
      region \in RegionValues(ApSoutheast1), defaultRegion \in RegionValues(EuWest1) }

\* Environments that differ in the credential variables
CredentialEnvs ==
  { ProcessEnv(Undefined, Undefined, accessKeyId, secretAccessKey, bearer, profile) :
      accessKeyId \in CredentialValues, secretAccessKey \in CredentialValues,
      bearer \in CredentialValues, profile \in CredentialValues }

\* Options that differ in the configured region
RegionWorld ==
  [ options |-> { Options(DEFAULT_BEDROCK_EMBEDDING_MODEL, region) : region \in RegionValues(EuCentral1) } ]

\* Options that differ in the model: registered, with prefix, padded, empty,
\* unknown, and names every object has
ModelArguments ==
  { DEFAULT_BEDROCK_EMBEDDING_MODEL,
    BedrockPrefix \o DEFAULT_BEDROCK_EMBEDDING_MODEL,
    <<" ">> \o DEFAULT_BEDROCK_EMBEDDING_MODEL \o <<" ">>,
    <<>>,
    <<"x">>,
    <<"c", "o", "n", "s", "t", "r", "u", "c", "t", "o", "r">>,
    BedrockPrefix \o <<"t", "o", "S", "t", "r", "i", "n", "g">>,
    <<"_", "_", "p", "r", "o", "t", "o", "_", "_">> }

CredentialWorld == [ options |-> { Options(model, Undefined) : model \in ModelArguments } ]

NextProvider == \E options \in world.options : createBedrockEmbeddingProvider(options)

InitProvider ==
  \/ \E e \in RegionEnvs : InitEmbedding(RegionWorld, e)
  \/ \E e \in CredentialEnvs : InitEmbedding(CredentialWorld, e)

SpecProvider == InitProvider /\ [][NextProvider]_vars

\* ------------------------------------------------------------------------
\* The Bedrock embedding adapter: embedQuery and embedBatch
\* ------------------------------------------------------------------------
\* JSON values as JSON.parse returns them, and undefined
JsonUndefined == [ type |-> "undefined" ]
JsonNull == [ type |-> "null" ]
JsonNumber(n) == [ type |-> "number", n |-> n ]
JsonArray(items) == [ type |-> "array", items |-> items ]
JsonObject(fields) == [ type |-> "object", fields |-> fields ]

\* value == null || value == undefined, the test of ?. and ??
IsNullish(value) == value.type = "null" \/ value.type = "undefined"

\* value.name for a value that is not nullish
Member(value, name) ==
  IF value.type = "object" /\ name \in DOMAIN value.fields THEN value.fields[name]
  ELSE JsonUndefined

\* value[0] for a value that is not nullish
FirstElement(value) ==
  IF value.type = "array" /\ value.items # <<>> THEN value.items[1]
  ELSE Member(value, "0")

\* A response body, by what new TextDecoder().decode and JSON.parse make of
\* its bytes: a JSON value, or no JSON text at all
JsonBody(value) == [ parses |-> TRUE, value |-> value ]
UnparsableBody == [ parses |-> FALSE, value |-> JsonUndefined ]

\* What a function call comes to: a returned value or a thrown error
Returned(value) == [ threw |-> FALSE, value |-> value ]
Thrown(error) == [ threw |-> TRUE, value |-> error ]

\* JSON.parse(new TextDecoder().decode(response.body))
JsonParse(body) == IF body.parses THEN Returned(body.value) ELSE Thrown("SyntaxError")

\* parseNova2Response: payload.embeddings?.[0]?.embedding ?? []
parseNova2Response(payload) ==
  IF IsNullish(payload) THEN Thrown("TypeError")
  ELSE LET embeddings == Member(payload, "embeddings")
           first == IF IsNullish(embeddings) THEN JsonUndefined ELSE FirstElement(embeddings)
           embedding == IF IsNullish(first) THEN JsonUndefined ELSE Member(first, "embedding")
       IN Returned(IF IsNullish(embedding) THEN JsonArray(<<>>) ELSE embedding)

\* buildNova2Request
buildNova2Request(text, dimension) ==
  [ schemaVersion |-> "nova-multimodal-embed-v1",
    taskType |-> "SINGLE_EMBEDDING",
    singleEmbeddingParams |->
      [ embeddingPurpose |-> "GENERIC_INDEX",
        embeddingDimension |-> dimension,
        text |-> [ truncationMode |-> "END", value |-> text ] ] ]

\* new InvokeModelCommand({...}) of embedSingle; body is the object whose
\* JSON text is sent
InvokeModelCommand(modelId, body) ==
  [ modelId |-> modelId, contentType |-> "application/json",
    accept |-> "application/json", body |-> body ]

\* A remote invocation just sent; overtook becomes TRUE when it completes
\* while an invocation sent before it has not
SentInvocation(command) ==
  [ command |-> command, status |-> "pending", body |-> UnparsableBody, overtook |-> FALSE ]

\* The promise of one embedSingle call
PendingSingle(invocation) == [ invocation |-> invocation, state |-> "pending", value |-> JsonUndefined ]
RejectedSingle == [ invocation |-> 0, state |-> "rejected", value |-> JsonUndefined ]

\* embedSingle after await runtimeClient.send(command): the promise of the
\* call settles
SettledSingle(single, invocation) ==
  IF invocation.status = "failed" THEN [single EXCEPT !.state = "rejected"]
  ELSE LET responseBody == JsonParse(invocation.body)
           result == IF responseBody.threw THEN responseBody
                     ELSE parseNova2Response(responseBody.value)
       IN IF result.threw THEN [single EXCEPT !.state = "rejected"]
          ELSE [single EXCEPT !.state = "resolved", !.value = result.value]

PromiseAll_Race(singles) ==
  IF \E i \in 1..Len(singles) : singles[i].state = "rejected"
  THEN [ state |-> "rejected", value |-> <<>> ]
  ELSE IF singles = <<>> \/ \E i \in 1..Len(singles) : singles[i].state = "resolved"
  THEN [ state |-> "resolved", value |-> [i \in 1..Len(singles) |-> singles[i].value] ]
  ELSE [ state |-> "pending", value |-> <<>> ]

\* Promise.all(promises): rejected once one of them is, fulfilled with the
\* values in the order of the promises once all of them are
PromiseAll(singles) ==
  IF \E i \in 1..Len(singles) : singles[i].state = "rejected"
  THEN [ state |-> "rejected", value |-> <<>> ]
  ELSE IF \A i \in 1..Len(singles) : singles[i].state = "resolved"
  THEN [ state |-> "resolved", value |-> [i \in 1..Len(singles) |-> singles[i].value] ]
  ELSE [ state |-> "pending", value |-> <<>> ]

\* The synchronous part of texts.map(embedSingle) on provider k, with sent
\* invocations before it: buildRequest and send for each text in turn. A
\* provider whose modelConfig is an inherited member has no buildRequest:
\* the call throws before anything is sent.
SentBy(k, texts) ==
  IF providers[k].modelConfig.kind # "config" THEN <<>>
  ELSE [ i \in 1..Len(texts) |->
           SentInvocation(InvokeModelCommand(providers[k].modelId,
             buildNova2Request(texts[i], providers[k].modelConfig.config.defaultDimension))) ]

SinglesOf(k, texts) ==
  [ i \in 1..Len(texts) |->
      IF providers[k].modelConfig.kind # "config" THEN RejectedSingle
      ELSE PendingSingle(Len(invocations) + i) ]

\* provider.embedQuery(text) = embedSingle(text)
embedQuery(k, text) ==
  /\ Len(embeds) < MaxEmbedCalls
  /\ Len(invocations) + 1 <= MaxInvocations
  /\ providers[k].outcome = "created"
  /\ invocations' = invocations \o SentBy(k, <<text>>)
  /\ embeds' = Append(embeds,
       [ kind |-> "query", provider |-> k, texts |-> <<text>>,
         singles |-> SinglesOf(k, <<text>>),
         state |-> SinglesOf(k, <<text>>)[1].state, value |-> JsonUndefined ])
  /\ UNCHANGED <<world, discoveryVars, env, normalized, providers, jobs>>

\* The promise Promise.all returned for the call batch is pending, the
\* promises it was given decide its outcome, and no reaction that settles it
\* is queued
ReactionDue(batch, queued) ==
  /\ batch.kind = "batch" /\ batch.state = "pending" /\ ~queued
  /\ PromiseAll(batch.singles).state # "pending"

\* provider.embedBatch(texts) = Promise.all(texts.map(embedSingle)). The
\* promise of an empty list is fulfilled at return; any other is pending at
\* return, also when the promises it was given are rejected already: the
\* reaction that settles it is a job of its own.
embedBatch(k, texts) ==
  /\ Len(embeds) < MaxEmbedCalls
  /\ Len(invocations) + Len(texts) <= MaxInvocations
  /\ providers[k].outcome = "created"
  /\ invocations' = invocations \o SentBy(k, texts)
  /\ \E batch \in { [ kind |-> "batch", provider |-> k, texts |-> texts,
                       singles |-> SinglesOf(k, texts),
                       state |-> IF texts = <<>> THEN PromiseAll(<<>>).state ELSE "pending",
                       value |-> IF texts = <<>> THEN PromiseAll(<<>>).value ELSE <<>> ] } :
       /\ embeds' = Append(embeds, batch)
       /\ jobs' = IF ReactionDue(batch, FALSE) THEN Append(jobs, Len(embeds) + 1) ELSE jobs
  /\ UNCHANGED <<world, discoveryVars, env, normalized, providers>>

\* Call j is waiting in the job queue
Queued(j) == \E n \in 1..Len(jobs) : jobs[n] = j

\* Invocation i has completed as updated: the embedSingle call that awaits it
\* continues and its promise settles. That promise is the one embedQuery
\* returned; for an embedBatch call the reaction of Promise.all is queued
\* when the promise decides the outcome of the call.
InvocationCompleted(i, updated) ==
  /\ invocations' = [invocations EXCEPT ![i] = updated]
  /\ embeds' =
       [ j \in 1..Len(embeds) |->
           LET singles == [ n \in 1..Len(embeds[j].singles) |->
                              IF embeds[j].singles[n].invocation = i
                              THEN SettledSingle(embeds[j].singles[n], updated)
                              ELSE embeds[j].singles[n] ]
           IN IF embeds[j].kind = "query"
              THEN [embeds[j] EXCEPT !.singles = singles, !.state = singles[1].state,
                                     !.value = singles[1].value]
              ELSE [embeds[j] EXCEPT !.singles = singles] ]
  /\ jobs' = jobs \o SelectSeq([ j \in 1..Len(embeds) |-> j ],
                               LAMBDA j : ReactionDue(embeds'[j], Queued(j)))
  /\ UNCHANGED <<world, discoveryVars, env, normalized, providers>>

\* The job at the head of the queue runs: the reaction of Promise.all
\* settles the promise embedBatch returned
PromiseAllSettles ==
  /\ jobs # <<>>
  /\ embeds' = [embeds EXCEPT ![Head(jobs)].state = PromiseAll(embeds[Head(jobs)].singles).state,
                              ![Head(jobs)].value = PromiseAll(embeds[Head(jobs)].singles).value]
  /\ jobs' = Tail(jobs)
  /\ UNCHANGED <<world, discoveryVars, env, normalized, providers, invocations>>

\* Invocation i completes before one that was sent earlier
Overtakes(i) == \E n \in 1..(i - 1) : invocations[n].status = "pending"

\* runtimeClient.send(command) resolves with a response of the given body
InvokeModelOk(i, body) ==
  /\ invocations[i].status = "pending"
  /\ InvocationCompleted(i, [invocations[i] EXCEPT !.status = "ok", !.body = body,
                                                   !.overtook = Overtakes(i)])

\* runtimeClient.send(command) rejects
InvokeModelFail(i) ==
  /\ invocations[i].status = "pending"
  /\ InvocationCompleted(i, [invocations[i] EXCEPT !.status = "failed",
                                                   !.overtook = Overtakes(i)])

\* Response bodies: an embedding, and the shapes without one
EmbeddingBody(n) ==
  JsonBody(JsonObject([ embeddings |->
    JsonArray(<< JsonObject([ embedding |-> JsonArray(<< JsonNumber(n) >>) ]) >>) ]))

NoEmbeddingsBody == JsonBody(JsonObject([ usage |-> JsonNumber(1) ]))
EmptyEmbeddingsBody == JsonBody(JsonObject([ embeddings |-> JsonArray(<<>>) ]))
NoEmbeddingBody ==
  JsonBody(JsonObject([ embeddings |-> JsonArray(<< JsonObject([ index |-> JsonNumber(0) ]) >>) ]))
NullEmbeddingsBody == JsonBody(JsonObject([ embeddings |-> JsonNull ]))
NullBody == JsonBody(JsonNull)

ResponseBodies ==
  { EmbeddingBody(2), NoEmbeddingsBody, EmptyEmbeddingsBody, NoEmbeddingBody,
    NullEmbeddingsBody, NullBody, UnparsableBody }

EmbedTexts == { <<"a">>, <<"b">> }

\* The worlds of a list of texts with two embeddings to answer with, and
\* the worlds of one text with an embedding and one other body
EmbedWorlds ==
  { [ texts |-> texts, bodies |-> { EmbeddingBody(1), EmbeddingBody(2) } ] :
      texts \in SeqsUpTo(EmbedTexts, MaxTexts) }
  \cup { [ texts |-> << <<"a">> >>, bodies |-> { EmbeddingBody(1), body } ] :
           body \in ResponseBodies }

\* A provider of the default model, created with a profile in the environment
EmbedEnv == ProcessEnv(Undefined, Undefined, Undefined, Undefined, Undefined, <<"p">>)

InitEmbed ==
  \E w \in EmbedWorlds :
    /\ world = w
    /\ discoveryCache = EmptyCache
    /\ hasLoggedBedrockError = FALSE
    /\ promises = <<>>
    /\ calls = <<>>
    /\ warnings = <<>>
    /\ resets = 0
    /\ env = EmbedEnv
    /\ normalized = [model \in {} |-> Undefined]
    /\ providers = << CreatedProvider(Options(<<>>, Undefined)) >>
    /\ invocations = <<>>
    /\ embeds = <<>>
    /\ jobs = <<>>

NextEmbed ==
  \/ \E i \in 1..Len(world.texts) : embedQuery(1, world.texts[i])
  \/ embedBatch(1, world.texts)
  \/ \E i \in 1..Len(invocations), body \in world.bodies : InvokeModelOk(i, body)
  \/ \E i \in 1..Len(invocations) : InvokeModelFail(i)
  \/ PromiseAllSettles

SpecEmbed == InitEmbed /\ [][NextEmbed]_vars

\* ------------------------------------------------------------------------
\* Vocabulary of the claims
\* ------------------------------------------------------------------------
Promises == 1..Len(promises)
Calls == 1..Len(calls)

\* This step is a discoverBedrockModels call; TheCall is that call afterwards
CallMade == Len(calls') = Len(calls) + 1
TheCall == calls'[Len(calls')]

\* This step creates a client and sends ListFoundationModels
FetchStarted == Len(promises') = Len(promises) + 1
NoFetchStarted == Len(promises') = Len(promises)

\* This step is the catch block / the continuation of the call that started q
Handles(q) == ~promises[q].handled /\ promises'[q].handled

Cached(q) == promises[q].refreshIntervalSeconds > 0

\* The calls attached to the fetch q: the one that started it and those that joined
CallsOf(q) == { c \in Calls : calls[c].promise = q }

\* ------------------------------------------------------------------------
\* C1: while a fetch for a cached key is unresolved, no call for that key
\* starts another fetch (no client, no ListFoundationModels): each such call
\* joins the pending fetch; and once the fetch has succeeded, the call that
\* started it resolves to its list when it resumes, the calls that joined it
\* settle after that, and every settled call attached to the fetch has
\* resolved to the list it produced.
\* ------------------------------------------------------------------------
C1_JoinsPending ==
  \A q \in Promises :
    (Cached(q) /\ promises[q].state = "pending" /\ CallMade
       /\ TheCall.cacheKey = promises[q].cacheKey)
    => /\ NoFetchStarted
       /\ TheCall.kind = "joined"
       /\ TheCall.promise = q

C1_SameList ==
  \A q \in Promises :
    (Cached(q) /\ promises[q].state = "fulfilled")
    => \A c \in CallsOf(q) :
         /\ calls[c].state # "rejected"
         /\ calls[c].state = "resolved" => calls[c].value = promises[q].value
         /\ calls[c].kind = "started" => (calls[c].state = "resolved" <=> promises[q].handled)
         /\ calls[c].kind = "joined" /\ calls[c].state = "resolved" => promises[q].handled

\* C1: calls for a key with a pending fetch join it and all get its list
C1_OneFetchPerKey == [][C1_JoinsPending]_vars /\ []C1_SameList

C1_Witness ==
  /\ Len(promises) = 1
  /\ Cardinality(CallsOf(1)) = 3
  /\ promises[1].handled
  /\ promises[1].value # <<>>
  /\ \A c \in Calls : calls[c].state = "resolved" /\ calls[c].value = promises[1].value

\* ------------------------------------------------------------------------
\* C2: a value entry expires at the clock reading of the call that started
\* its fetch plus interval * 1000; a lookup reading a clock below the expiry
\* returns the entry's list and starts nothing; a lookup at or past the expiry
\* starts exactly one fetch and leaves the entry in flight; a lookup finding
\* the entry in flight joins it.
\* ------------------------------------------------------------------------
C2_Expiry ==
  \A k \in DOMAIN discoveryCache :
    discoveryCache[k].hasValue =>
      \E q \in Promises :
        /\ promises[q].cacheKey = k /\ promises[q].state = "fulfilled" /\ promises[q].handled
        /\ discoveryCache[k].value = promises[q].value
        /\ discoveryCache[k].expiresAt =
             calls[StarterOf(q)].now + calls[StarterOf(q)].refreshIntervalSeconds * 1000

C2_Lookup ==
  (CallMade /\ TheCall.refreshIntervalSeconds > 0 /\ TheCall.cacheKey \in DOMAIN discoveryCache)
  => LET entry == discoveryCache[TheCall.cacheKey]
     IN /\ (entry.hasValue /\ TheCall.now < entry.expiresAt)
             => /\ NoFetchStarted
                /\ discoveryCache' = discoveryCache
                /\ TheCall.kind = "cached"
                /\ TheCall.state = "resolved" /\ TheCall.value = entry.value
        /\ (entry.hasValue /\ TheCall.now >= entry.expiresAt)
             => /\ FetchStarted
                /\ TheCall.kind = "started" /\ TheCall.promise = Len(promises')
                /\ ~discoveryCache'[TheCall.cacheKey].hasValue
                /\ discoveryCache'[TheCall.cacheKey].inFlight = Len(promises')
        /\ (~entry.hasValue)
             => /\ NoFetchStarted
                /\ TheCall.kind = "joined" /\ TheCall.promise = entry.inFlight

\* C2: a lookup below the expiry is served from the cache, one at or past it refetches
C2_CachedUntilExpiry == [][C2_Lookup]_vars /\ []C2_Expiry

C2_Witness ==
  /\ Len(calls) = 3 /\ Len(promises) = 2
  /\ calls[1].kind = "started" /\ calls[1].now = 0
  /\ calls[2].kind = "cached" /\ calls[2].value = promises[1].value /\ calls[2].value # <<>>
  /\ calls[3].kind = "started" /\ calls[3].now = 1000
  /\ discoveryCache[calls[3].cacheKey].inFlight = 2

\* ------------------------------------------------------------------------
\* C3: the call that started a fetch whose ListFoundationModels call failed
\* has resolved to the empty list once it has resumed, and no call that
\* started a fetch ever rejects, whatever the interval.
\* ------------------------------------------------------------------------
C3_StarterGetsEmptyList ==
  \A c \in Calls :
    calls[c].kind = "started"
    => /\ calls[c].state # "rejected"
       /\ (promises[calls[c].promise].models = "failed" /\ promises[calls[c].promise].handled)
            => (calls[c].state = "resolved" /\ calls[c].value = <<>>)

C3_Witness ==
  \E c, d \in Calls :
    /\ calls[c].kind = "started" /\ calls[c].refreshIntervalSeconds > 0
    /\ calls[d].kind = "started" /\ calls[d].refreshIntervalSeconds = 0
    /\ \A e \in {c, d} :
         /\ promises[calls[e].promise].models = "failed"
         /\ promises[calls[e].promise].handled
         /\ calls[e].state = "resolved"

\* ------------------------------------------------------------------------
\* C4: a call that joined a fetch which then failed never rejects, and
\* resolves to the empty list when it settles.
\* ------------------------------------------------------------------------
C4_JoinerGetsEmptyList ==
  \A c \in Calls :
    (calls[c].kind = "joined" /\ promises[calls[c].promise].state = "rejected")
    => /\ calls[c].state # "rejected"
       /\ calls[c].state = "resolved" => calls[c].value = <<>>

\* ------------------------------------------------------------------------
\* C5: when the starter of a failed fetch for a cached key resumes, the key's
\* entry is gone; a value entry never holds the result of a failed fetch; and
\* a lookup that finds no entry for its key starts a fetch.
\* ------------------------------------------------------------------------
C5_RemovedOnFailure ==
  \A q \in Promises :
    (Handles(q) /\ Cached(q) /\ promises[q].state = "rejected")
    => promises[q].cacheKey \notin DOMAIN discoveryCache'

C5_MissStartsFetch ==
  (CallMade /\ TheCall.cacheKey \notin DOMAIN discoveryCache)
  => (FetchStarted /\ TheCall.kind = "started" /\ TheCall.promise = Len(promises'))

C5_NoFailedValue ==
  \A k \in DOMAIN discoveryCache :
    /\ discoveryCache[k].hasValue
         => \E q \in Promises : /\ promises[q].cacheKey = k
                                /\ promises[q].state = "fulfilled"
                                /\ promises[q].value = discoveryCache[k].value
    /\ (~discoveryCache[k].hasValue) => ~promises[discoveryCache[k].inFlight].handled

\* C5: a failed fetch leaves no entry, and the next lookup fetches again
C5_FailureEvictsEntry ==
  [][C5_RemovedOnFailure /\ C5_MissStartsFetch]_vars /\ []C5_NoFailedValue

C5_Witness ==
  /\ Len(promises) = 2
  /\ promises[1].state = "rejected" /\ promises[1].handled /\ Cached(1)
  /\ promises[2].cacheKey = promises[1].cacheKey
  /\ calls[1].state = "resolved" /\ calls[1].value = <<>>

\* ------------------------------------------------------------------------
\* C6: between two resets at most one warning is logged: a failing fetch logs
\* exactly when the flag is clear, and then sets it; with the flag set nothing
\* is logged; only a reset clears the flag.
\* ------------------------------------------------------------------------
C6_OnePerEpoch ==
  \A i, j \in 1..Len(warnings) : warnings[i] = warnings[j] => i = j

C6_LogStep ==
  /\ \A q \in Promises :
       (Handles(q) /\ promises[q].state = "rejected")
       => /\ hasLoggedBedrockError'
          /\ IF hasLoggedBedrockError THEN warnings' = warnings
             ELSE warnings' = Append(warnings, resets)
  /\ (\A q \in Promises : (Handles(q) => promises[q].state = "fulfilled"))
       => warnings' = warnings
  /\ (hasLoggedBedrockError /\ ~hasLoggedBedrockError') => resets' = resets + 1

\* C6: at most one warning between two resets
C6_LogOnce == [][C6_LogStep]_vars /\ []C6_OnePerEpoch

C6_Witness ==
  /\ resets = 0
  /\ Len(warnings) = 1
  /\ \E q, r \in Promises :
       /\ Cached(q) /\ ~Cached(r)
       /\ promises[q].state = "rejected" /\ promises[q].handled
       /\ promises[r].state = "rejected" /\ promises[r].handled

\* ------------------------------------------------------------------------
\* C7: with an effective interval of 0 every call starts its own fetch, and
\* neither the call nor the resumption after its fetch changes the cache; no
\* entry exists under the key of such a call.
\* ------------------------------------------------------------------------
C7_CallStep ==
  (CallMade /\ TheCall.refreshIntervalSeconds = 0)
  => /\ FetchStarted
     /\ TheCall.kind = "started" /\ TheCall.promise = Len(promises')
     /\ discoveryCache' = discoveryCache

C7_ResumeStep ==
  \A q \in Promises : (Handles(q) /\ ~Cached(q)) => discoveryCache' = discoveryCache

C7_NoEntry ==
  /\ \A q \in Promises : ~Cached(q) => promises[q].cacheKey \notin DOMAIN discoveryCache
  /\ Cardinality({ c \in Calls : calls[c].refreshIntervalSeconds = 0 })
       = Cardinality({ q \in Promises : ~Cached(q) })

\* C7: with an effective interval of 0 the cache is neither read nor written
C7_ZeroIntervalBypassesCache == [][C7_CallStep /\ C7_ResumeStep]_vars /\ []C7_NoEntry

C7_Witness ==
  /\ DOMAIN discoveryCache # {}
  /\ \E q, r \in Promises :
       /\ q # r /\ ~Cached(q) /\ ~Cached(r)
       /\ promises[q].state = "fulfilled" /\ promises[q].handled
       /\ promises[r].state = "rejected" /\ promises[r].handled

\* ------------------------------------------------------------------------
\* Vocabulary of the claims about the result of a discovery
\* ------------------------------------------------------------------------
\* The positions of the listing and of the result of the fetch q
Summaries(q) == 1..Len(promises[q].modelSummaries)
Definitions(q) == 1..Len(promises[q].value)

SummaryAt(q, i) == promises[q].modelSummaries[i]

\* The profile map of q has an entry for the base model id of summary i
HasProfile(q, i) == BaseIdOf(SummaryAt(q, i)) \in DOMAIN promises[q].profileMap

ProfileIdOf(q, i) == promises[q].profileMap[BaseIdOf(SummaryAt(q, i))]

\* The result of q has a definition with this id
HasDefinitionWithId(q, id) == \E j \in Definitions(q) : promises[q].value[j].id = id

\* ------------------------------------------------------------------------
\* C8: the result of a successful discovery contains a definition derived
\* from a model summary exactly for the summaries that have a non-blank model
\* id, match the provider filter (an empty filter matches everything, else the
\* trimmed lower-cased provider name, or model-id prefix before the first "."
\* when no provider name is given, is in the filter), support response
\* streaming, list a text output modality and have status ACTIVE, both up to
\* case: every such summary has a definition derived from it in the result,
\* every definition of the result is derived from such a summary, and there
\* are no more definitions than such summaries can account for.
\* ------------------------------------------------------------------------
C8_Filter(q) == { promises[q].providerFilter[i] : i \in 1..Len(promises[q].providerFilter) }

C8_Provider(summary) ==
  ToLowerCase(Trim(IF summary.providerName # Undefined THEN summary.providerName
                   ELSE SplitDotFirst(summary.modelId)))

C8_Qualifies(q, i) ==
  LET summary == SummaryAt(q, i)
  IN /\ summary.modelId # Undefined
     /\ Trim(summary.modelId) # <<>>
     /\ (C8_Filter(q) = {} \/ C8_Provider(summary) \in C8_Filter(q))
     /\ summary.responseStreamingSupported = "true"
     /\ summary.outputModalities # UndefinedList
     /\ \E m \in 1..Len(summary.outputModalities) :
          ToLowerCase(summary.outputModalities[m]) = <<"t", "e", "x", "t">>
     /\ summary.status # Undefined
     /\ ToUpperCase(summary.status) = ACTIVE

\* The definitions derived from summary i: under its profile id and its own id
C8_Derived(q, i) ==
  { toModelDefinition(SummaryAt(q, i), promises[q].defaults,
                      MapGet(promises[q].profileMap, BaseIdOf(SummaryAt(q, i)))),
    toModelDefinition(SummaryAt(q, i), promises[q].defaults, Undefined) }

\* C8: a fulfilled discovery holds definitions of exactly the qualifying summaries
C8_IncludedIffQualifies ==
  \A q \in Promises :
    promises[q].state = "fulfilled" =>
      /\ \A i \in Summaries(q) :
           C8_Qualifies(q, i)
             => \E j \in Definitions(q) : promises[q].value[j] \in C8_Derived(q, i)
      /\ \A j \in Definitions(q) :
           \E i \in Summaries(q) :
             C8_Qualifies(q, i) /\ promises[q].value[j] \in C8_Derived(q, i)
      /\ Len(promises[q].value)
           <= Cardinality({ i \in Summaries(q) : C8_Qualifies(q, i) })
              + Cardinality({ i \in Summaries(q) : C8_Qualifies(q, i) /\ HasProfile(q, i) })

\* A summary without provider name passed a non-empty filter by its id prefix
C8_Witness ==
  \E q \in Promises :
    /\ promises[q].state = "fulfilled"
    /\ Len(promises[q].providerFilter) > 0
    /\ Len(promises[q].modelSummaries) = 1
    /\ SummaryAt(q, 1).providerName = Undefined
    /\ C8_Qualifies(q, 1)
    /\ Len(promises[q].value) = 2

\* ------------------------------------------------------------------------
\* C9: in the result of a successful discovery every included summary whose
\* base model id has an entry in the profile map has a definition under the
\* profile id and a definition under the base id, and every included summary
\* without a profile has a definition under its base id; the result holds one
\* definition per included summary and one more for each summary with a
\* profile whose base id was not registered before.
\* ------------------------------------------------------------------------
C9_Included(q) ==
  { i \in Summaries(q) : shouldIncludeSummary(SummaryAt(q, i), promises[q].providerFilter) }

C9_PrimaryId(q, i) ==
  IF HasProfile(q, i) THEN ProfileIdOf(q, i) ELSE BaseIdOf(SummaryAt(q, i))

\* The ids registered when the loop has pushed the first definition of summary i
C9_Registered(q, i) ==
  { C9_PrimaryId(q, j) : j \in { k \in C9_Included(q) : k <= i } }
  \cup { BaseIdOf(SummaryAt(q, j)) : j \in { k \in C9_Included(q) : k < i } }

C9_AddsBase(q, i) ==
  HasProfile(q, i) /\ BaseIdOf(SummaryAt(q, i)) \notin C9_Registered(q, i)

\* C9: profile id and base id both resolve, and nothing else is emitted
C9_ProfileAndBaseIds ==
  \A q \in Promises :
    promises[q].state = "fulfilled" =>
      /\ \A i \in C9_Included(q) :
           /\ HasDefinitionWithId(q, BaseIdOf(SummaryAt(q, i)))
           /\ HasProfile(q, i) => HasDefinitionWithId(q, ProfileIdOf(q, i))
      /\ Len(promises[q].value)
           = Cardinality(C9_Included(q))
             + Cardinality({ i \in C9_Included(q) : C9_AddsBase(q, i) })

\* A result of three definitions for a model with a profile and one without
C9_Witness ==
  \E q \in Promises :
    /\ promises[q].state = "fulfilled"
    /\ \E i, j \in C9_Included(q) :
         /\ HasProfile(q, i) /\ ~HasProfile(q, j)
         /\ ProfileIdOf(q, i) # BaseIdOf(SummaryAt(q, i))
         /\ BaseIdOf(SummaryAt(q, j)) # BaseIdOf(SummaryAt(q, i))
    /\ Len(promises[q].value) = 3

\* ------------------------------------------------------------------------
\* C10: a fetch whose ListInferenceProfiles call failed, on the first page or
\* on a later one, and whose ListFoundationModels call succeeded, is fulfilled
\* with a definition under the base id for every included summary; when its
\* starter resumes, the call resolves to that list, a cached key gets a value
\* entry holding it, no warning is logged and the log-once flag is unchanged.
\* ------------------------------------------------------------------------
C10_ProfilesFailed(q) == promises[q].profileFailed /\ promises[q].models = "ok"

C10_Discovered ==
  \A q \in Promises :
    C10_ProfilesFailed(q) =>
      /\ promises[q].state = "fulfilled"
      /\ \A i \in C9_Included(q) :
           \E j \in Definitions(q) :
             promises[q].value[j]
               = toModelDefinition(SummaryAt(q, i), promises[q].defaults, Undefined)

C10_Stored ==
  \A q \in Promises :
    (Handles(q) /\ C10_ProfilesFailed(q)) =>
      /\ \E c \in Calls : /\ calls[c].kind = "started" /\ calls[c].promise = q
                          /\ calls'[c].state = "resolved"
                          /\ calls'[c].value = promises[q].value
      /\ Cached(q) =>
           /\ promises[q].cacheKey \in DOMAIN discoveryCache'
           /\ discoveryCache'[promises[q].cacheKey].hasValue
           /\ discoveryCache'[promises[q].cacheKey].value = promises[q].value
      /\ warnings' = warnings
      /\ hasLoggedBedrockError' = hasLoggedBedrockError

\* C10: a failed profile listing does not abort the discovery
C10_ProfileFailureSwallowed == [][C10_Stored]_vars /\ []C10_Discovered

\* The second page of the profile listing failed; both models are cached
C10_Witness ==
  \E q \in Promises :
    /\ C10_ProfilesFailed(q)
    /\ Len(promises[q].requests) = 2
    /\ promises[q].handled
    /\ Cached(q)
    /\ Cardinality(C9_Included(q)) = 2
    /\ promises[q].cacheKey \in DOMAIN discoveryCache
    /\ discoveryCache[promises[q].cacheKey].hasValue
    /\ discoveryCache[promises[q].cacheKey].value = promises[q].value
    /\ warnings = <<>> /\ ~hasLoggedBedrockError

\* ------------------------------------------------------------------------
\* C11: a fetch whose profile listing failed, on the first page or on a later
\* one, uses an empty profile map: every definition of its result is the
\* base-id definition of an included summary, none carries a profile id.
\* ------------------------------------------------------------------------
C11_EmptyMapOnFailure ==
  \A q \in Promises :
    (promises[q].profileFailed /\ promises[q].state = "fulfilled")
    => /\ promises[q].profileMap = EmptyMap
       /\ \A j \in Definitions(q) :
            \E i \in C9_Included(q) :
              promises[q].value[j]
                = toModelDefinition(SummaryAt(q, i), promises[q].defaults, Undefined)

\* ------------------------------------------------------------------------
\* C12: two calls have the same cache key exactly when they agree on the
\* region, the effective refresh interval, the resolved default context
\* window and max tokens, and on the provider filter as a set of trimmed,
\* lower-cased, non-blank entries. A call for a cached key made while the
\* fetch of an agreeing call is pending joins that fetch, and one made after
\* it succeeded and before its expiry gets its list; a joined fetch and a
\* cached list always come from an agreeing call, and a call leaves the
\* entries of other keys alone.
\* ------------------------------------------------------------------------
C12_FilterSet(config) ==
  IF config.providerFilter = UndefinedList THEN {}
  ELSE { ToLowerCase(Trim(config.providerFilter[i])) :
           i \in 1..Len(config.providerFilter) } \ { <<>> }

C12_Agree(a, b) ==
  /\ a.region = b.region
  /\ resolveRefreshIntervalSeconds(a.config) = resolveRefreshIntervalSeconds(b.config)
  /\ resolveDefaultContextWindow(a.config) = resolveDefaultContextWindow(b.config)
  /\ resolveDefaultMaxTokens(a.config) = resolveDefaultMaxTokens(b.config)
  /\ C12_FilterSet(a.config) = C12_FilterSet(b.config)

C12_KeysAgree ==
  \A c, d \in Calls : (calls[c].cacheKey = calls[d].cacheKey) <=> C12_Agree(calls[c], calls[d])

C12_Served ==
  \A c \in Calls :
    /\ calls[c].kind = "joined"
         => \E d \in Calls : /\ calls[d].kind = "started"
                             /\ calls[d].promise = calls[c].promise
                             /\ C12_Agree(calls[c], calls[d])
    /\ calls[c].kind = "cached"
         => \E d \in Calls : /\ d < c
                             /\ calls[d].kind = "started"
                             /\ C12_Agree(calls[c], calls[d])
                             /\ promises[calls[d].promise].state = "fulfilled"
                             /\ promises[calls[d].promise].value = calls[c].value

\* q is the latest fetch of its key
C12_Latest(q) ==
  \A r \in Promises : promises[r].cacheKey = promises[q].cacheKey => r <= q

C12_Shares ==
  CallMade =>
    \A d \in Calls :
      (/\ calls[d].kind = "started"
       /\ C12_Agree(TheCall, calls[d])
       /\ Cached(calls[d].promise)
       /\ C12_Latest(calls[d].promise))
      => LET q == calls[d].promise
         IN /\ ~promises[q].handled
                 => /\ NoFetchStarted
                    /\ TheCall.kind = "joined" /\ TheCall.promise = q
            /\ (/\ promises[q].handled /\ promises[q].state = "fulfilled"
                /\ TheCall.now < ExpiresAt(promises[q].now, promises[q].refreshIntervalSeconds))
                 => /\ NoFetchStarted
                    /\ TheCall.kind = "cached" /\ TheCall.value = promises[q].value

C12_Isolated ==
  CallMade =>
    \A k \in DOMAIN discoveryCache :
      k # TheCall.cacheKey => (k \in DOMAIN discoveryCache' /\ discoveryCache'[k] = discoveryCache[k])

\* C12: calls share a cache entry exactly when their normalised parameters agree
C12_SharedExactlyByKey ==
  [][C12_Shares /\ C12_Isolated]_vars /\ [](C12_KeysAgree /\ C12_Served)

\* A call whose filter lists the same providers in other order and case, with
\* a repeated and a blank entry, joined the fetch of the first call
C12_Witness ==
  /\ Len(calls) = 2 /\ Len(promises) = 1
  /\ calls[1].config.providerFilter = FilterAiBz
  /\ Len(calls[2].config.providerFilter) = 4
  /\ C12_Agree(calls[1], calls[2])
  /\ calls[2].kind = "joined" /\ calls[2].promise = 1
  /\ promises[1].state = "fulfilled" /\ promises[1].handled
  /\ calls[2].state = "resolved" /\ calls[2].value = promises[1].value
  /\ Len(promises[1].value) = 2

\* ------------------------------------------------------------------------
\* C13: a reset leaves the cache without entries and the log-once flag clear.
\* As stated: the first lookup of a key after a reset starts a fetch.
\* ------------------------------------------------------------------------
\* This step is a call that is the first for its key since the last reset
C13_FirstSinceReset ==
  /\ CallMade
  /\ TheCall.epoch > 0
  /\ \A c \in Calls : calls[c].epoch = TheCall.epoch => calls[c].cacheKey # TheCall.cacheKey

\* C13 as stated: the next lookup of any key after a reset performs a fetch
C13_NextLookupFetches ==
  [][C13_FirstSinceReset => (FetchStarted /\ TheCall.kind = "started")]_vars

\* This step is a reset
C13_Reset == resets' = resets + 1

C13_ResetStep ==
  C13_Reset => /\ DOMAIN discoveryCache' = {}
               /\ ~hasLoggedBedrockError'
               /\ promises' = promises /\ calls' = calls /\ warnings' = warnings

\* The call of this step finds a list stored for its key that has not expired
\* at its clock reading
C13_FindsFreshList ==
  /\ TheCall.cacheKey \in DOMAIN discoveryCache
  /\ discoveryCache[TheCall.cacheKey].hasValue
  /\ discoveryCache[TheCall.cacheKey].expiresAt > TheCall.now

\* The list stored for the key of the call of this step is that of a fetch
\* started before the last reset, and expires interval * 1000 after the clock
\* reading of the call that started the fetch
C13_StoredSinceReset ==
  \E q \in Promises :
    /\ promises[q].cacheKey = TheCall.cacheKey
    /\ calls[StarterOf(q)].epoch < TheCall.epoch
    /\ promises[q].state = "fulfilled" /\ promises[q].handled
    /\ promises[q].value = discoveryCache[TheCall.cacheKey].value
    /\ discoveryCache[TheCall.cacheKey].expiresAt =
         calls[StarterOf(q)].now + promises[q].refreshIntervalSeconds * 1000

\* The first lookup of a key after a reset is served the list a fetch of that
\* key from before the reset has stored since, when its clock reading is
\* below the expiry time of that list, and starts a fetch in every other case
C13_NextLookup ==
  C13_FirstSinceReset =>
    IF C13_FindsFreshList
    THEN /\ C13_StoredSinceReset
         /\ NoFetchStarted
         /\ TheCall.kind = "cached" /\ TheCall.state = "resolved"
         /\ TheCall.value = discoveryCache[TheCall.cacheKey].value
    ELSE /\ FetchStarted /\ TheCall.kind = "started"
         /\ (TheCall.cacheKey \in DOMAIN discoveryCache) => C13_StoredSinceReset

\* A lookup that finds no entry for its key starts a fetch
C13_EmptyCacheLookup ==
  (CallMade /\ DOMAIN discoveryCache = {}) => (FetchStarted /\ TheCall.kind = "started")

\* The first failing fetch to be handled after a reset logs a warning
C13_NextWarning ==
  \A q \in Promises :
    (/\ Handles(q) /\ promises[q].state = "rejected"
     /\ \A i \in 1..Len(warnings) : warnings[i] # resets)
    => warnings' = Append(warnings, resets)

\* C13 (amended): the reset empties the cache and clears the flag; the next
\* lookup of a key fetches unless a fetch pending at the reset has resumed and
\* stored its list and the lookup reads a clock below the expiry time of that
\* list, and is served the list then; the next failing fetch logs a warning
\* again
C13_ResetClears ==
  [][C13_ResetStep /\ C13_NextLookup /\ C13_EmptyCacheLookup /\ C13_NextWarning]_vars

\* A fetch was pending at the reset and stored its list after it; the next
\* lookup of the key, at a clock below the expiry time, was served the list
C13_Witness ==
  /\ resets = 1
  /\ Len(calls) = 2 /\ Len(promises) = 1
  /\ calls[1].epoch = 0 /\ calls[1].kind = "started" /\ calls[1].refreshIntervalSeconds > 0
  /\ promises[1].state = "fulfilled" /\ promises[1].handled /\ promises[1].value # <<>>
  /\ calls[2].epoch = 1 /\ calls[2].cacheKey = calls[1].cacheKey
  /\ calls[2].now < calls[1].now + calls[1].refreshIntervalSeconds * 1000
  /\ calls[2].kind = "cached" /\ calls[2].value = promises[1].value

\* ------------------------------------------------------------------------
\* C19: when every remote call completes and the profile listing ends after
\* finitely many pages, every call settles and no cache entry stays in the
\* in-flight state.
\* ------------------------------------------------------------------------
C19_Pending(c) == c \in Calls /\ calls[c].state = "pending"

C19_Settled(c) == c \in Calls /\ calls[c].state # "pending"

C19_InFlight(q) ==
  /\ q \in Promises
  /\ promises[q].cacheKey \in DOMAIN discoveryCache
  /\ discoveryCache[promises[q].cacheKey].inFlight = q

\* C19: every call eventually settles and every in-flight entry is replaced
C19_Terminates ==
  /\ \A c \in 1..MaxKeyCalls : C19_Pending(c) ~> C19_Settled(c)
  /\ \A q \in 1..MaxKeyCalls : C19_InFlight(q) ~> ~C19_InFlight(q)

\* After two pages of profiles the starter and a joined call hold the list,
\* and the entry holds it
C19_Witness ==
  /\ Len(calls) = 2 /\ Len(promises) = 1
  /\ Len(promises[1].requests) = 2 /\ promises[1].profiles = "done"
  /\ calls[2].kind = "joined"
  /\ C19_Settled(1) /\ C19_Settled(2)
  /\ promises[1].cacheKey \in DOMAIN discoveryCache
  /\ discoveryCache[promises[1].cacheKey].hasValue

\* ------------------------------------------------------------------------
\* C20: a fetch for a key with interval > 0 whose remote call never completes
\* keeps the entry in flight and its callers waiting.
\* ------------------------------------------------------------------------
\* The call whose synchronous part created promise p
C20_Starter(p) == CHOOSE c \in Calls : calls[c].kind = "started" /\ calls[c].promise = p

\* Some remote call of the cached fetch p has not completed
C20_Hung(p) ==
  /\ promises[p].refreshIntervalSeconds > 0
  /\ promises[p].models = "pending" \/ promises[p].profiles = "paging"

\* ListFoundationModels has not completed, or it succeeded and a
\* ListInferenceProfiles request has not completed
C20_Blocked(p) ==
  /\ promises[p].refreshIntervalSeconds > 0
  /\ \/ promises[p].models = "pending"
     \/ promises[p].models = "ok" /\ promises[p].profiles = "paging"

\* The entry of p's key is in flight with p, the starter and every later
\* lookup of the key wait for p, and no call of another key does
C20_Held(p) ==
  /\ promises[p].cacheKey \in DOMAIN discoveryCache
  /\ discoveryCache[promises[p].cacheKey].inFlight = p
  /\ ~discoveryCache[promises[p].cacheKey].hasValue
  /\ \A c \in Calls :
       IF calls[c].cacheKey = promises[p].cacheKey
       THEN c >= C20_Starter(p) => calls[c].promise = p /\ calls[c].state = "pending"
       ELSE calls[c].promise # p

\* C20 as stated: while any remote call of a cached fetch is outstanding its
\* entry stays in flight, its callers wait and no new fetch of the key starts
C20_HungStaysInFlight == \A p \in Promises : C20_Hung(p) => C20_Held(p)

\* C20, amended: the same while ListFoundationModels is outstanding, or has
\* succeeded with a ListInferenceProfiles request outstanding
C20_BlockedStaysInFlight == \A p \in Promises : C20_Blocked(p) => C20_Held(p)

\* The profile listing of the first fetch hangs after the models arrived; a
\* lookup of the same key with a clock past the expiry time has joined it
C20_Witness ==
  /\ Len(calls) = 2 /\ Len(promises) = 1
  /\ promises[1].models = "ok" /\ promises[1].profiles = "paging"
  /\ C20_Blocked(1)
  /\ calls[2].cacheKey = calls[1].cacheKey
  /\ calls[2].now > discoveryCache[promises[1].cacheKey].expiresAt
  /\ calls[2].kind = "joined" /\ calls[2].state = "pending"
  /\ calls[1].state = "pending"

\* ------------------------------------------------------------------------
\* C17: normalizeBedrockModel("bedrock/" + X) = normalizeBedrockModel(X) = X
\* ------------------------------------------------------------------------
\* Both calls of this world were made
C17_Applied == DOMAIN normalized = world.models

C17_Agree ==
  /\ normalized[BedrockPrefix \o world.input] = normalized[world.input]
  /\ normalized[world.input] = world.input

\* C17 as stated: for every non-empty X that does not start with "bedrock/",
\* both calls return X
C17_PrefixIgnored ==
  (C17_Applied /\ world.input # <<>> /\ ~StartsWith(world.input, BedrockPrefix)) => C17_Agree

\* What normalizeBedrockModel(X) is for this world's X: the default model id
\* when X is only white space, and otherwise X trimmed, without the leading
\* "bedrock/" that the trimming may have uncovered
C17_OfInput ==
  IF Trim(world.input) = <<>> THEN DEFAULT_BEDROCK_EMBEDDING_MODEL
  ELSE IF StartsWith(Trim(world.input), BedrockPrefix)
  THEN SubSeq(Trim(world.input), Len(BedrockPrefix) + 1, Len(Trim(world.input)))
  ELSE Trim(world.input)

\* C17, amended: for every non-empty X that does not start with "bedrock/",
\* normalizeBedrockModel("bedrock/" + X) is X without its trailing white
\* space, normalizeBedrockModel(X) is as C17_OfInput says, and the two are
\* equal to each other and to X exactly when X has no leading or trailing
\* white space
C17_PrefixIgnoredWhenTrimmed ==
  (C17_Applied /\ world.input # <<>> /\ ~StartsWith(world.input, BedrockPrefix)) =>
    /\ normalized[BedrockPrefix \o world.input] = TrimEnd(world.input)
    /\ normalized[world.input] = C17_OfInput
    /\ C17_Agree <=> Trim(world.input) = world.input

\* Both calls were made for X = "a/bedrock/" and returned X
C17_Witness ==
  /\ C17_Applied
  /\ world.input = <<"a", "/">> \o BedrockPrefix
  /\ normalized[BedrockPrefix \o world.input] = world.input
  /\ normalized[world.input] = world.input

\* ------------------------------------------------------------------------
\* C16: the errors of createBedrockEmbeddingProvider
\* ------------------------------------------------------------------------
\* A variable is set and not blank
C16_NonBlank(name) == name \in DOMAIN env /\ env[name] # Undefined /\ Trim(env[name]) # <<>>

\* One of the three forms of credentials is present
C16_HasCredentials ==
  \/ C16_NonBlank("AWS_ACCESS_KEY_ID") /\ C16_NonBlank("AWS_SECRET_ACCESS_KEY")
  \/ C16_NonBlank("AWS_BEARER_TOKEN_BEDROCK")
  \/ C16_NonBlank("AWS_PROFILE")

\* The normalized model id of call k is a key of the registry
C16_Registered(k) == normalizeBedrockModel(providers[k].options.model) \in SupportedModels

\* C16: a call fails with UnsupportedModel exactly when its normalized model
\* id is not in the registry, with MissingCredentials exactly when the model
\* is registered and no form of credentials is present, and no call of
\* createBedrockEmbeddingProvider sends a remote request
C16_ErrorsOfCreation ==
  /\ \A k \in 1..Len(providers) :
       /\ providers[k].outcome = "UnsupportedModel" <=> ~C16_Registered(k)
       /\ providers[k].outcome = "MissingCredentials" <=>
            (C16_Registered(k) /\ ~C16_HasCredentials)
  /\ invocations = <<>>

\* ------------------------------------------------------------------------
\* C18: the region of a created provider
\* ------------------------------------------------------------------------
\* The sources of the region of call k, highest priority first
C18_Sources(k) ==
  << providers[k].options.region, EnvGet("AWS_REGION"), EnvGet("AWS_DEFAULT_REGION") >>

C18_Blank(v) == v = Undefined \/ Trim(v) = <<>>

\* The first source that is not blank, 0 when all are
C18_First(k) ==
  LET set == { i \in 1..3 : ~C18_Blank(C18_Sources(k)[i]) }
  IN IF set = {} THEN 0 ELSE CHOOSE i \in set : \A j \in set : i <= j

\* C18: the region of a created provider is the trimmed value of the first
\* non-blank source among the configured region, AWS_REGION and
\* AWS_DEFAULT_REGION, and "us-east-1" when all are blank
C18_RegionPriority ==
  \A k \in 1..Len(providers) :
    providers[k].outcome = "created" =>
      providers[k].region =
        IF C18_First(k) = 0 THEN <<"u", "s", "-", "e", "a", "s", "t", "-", "1">>
        ELSE Trim(C18_Sources(k)[C18_First(k)])

\* A provider was created with a blank configured region and both variables
\* set: its region is the trimmed AWS_REGION
C18_Witness ==
  /\ Len(providers) = 1
  /\ providers[1].outcome = "created"
  /\ providers[1].options.region = <<" ", "\t">>
  /\ env.AWS_REGION = <<" ">> \o ApSoutheast1 \o <<" ">>
  /\ env.AWS_DEFAULT_REGION = <<" ">> \o EuWest1 \o <<" ">>
  /\ providers[1].region = ApSoutheast1

\* ------------------------------------------------------------------------
\* C14: embedBatch sends one invocation per text at once and returns the
\* embeddings in the order of the texts
\* ------------------------------------------------------------------------
C14_Batches == { j \in 1..Len(embeds) : embeds[j].kind = "batch" }

\* The invocation sent for text i of call j
C14_Invocation(j, i) == invocations[embeds[j].singles[i].invocation]

\* The embedding a response body holds, the empty vector when it holds none
C14_EmbeddingOf(body) ==
  IF body = EmbeddingBody(1) THEN JsonArray(<< JsonNumber(1) >>)
  ELSE IF body = EmbeddingBody(2) THEN JsonArray(<< JsonNumber(2) >>)
  ELSE JsonArray(<<>>)

\* Call j has one invocation per text, for that text, and no invocation
\* belongs to two texts
C14_OnePerText(j) ==
  /\ Len(embeds[j].singles) = Len(embeds[j].texts)
  /\ \A i \in 1..Len(embeds[j].texts) :
       /\ embeds[j].singles[i].invocation \in 1..Len(invocations)
       /\ C14_Invocation(j, i).command.body.singleEmbeddingParams.text.value = embeds[j].texts[i]
       /\ \A n \in 1..Len(embeds[j].texts) :
            embeds[j].singles[n].invocation = embeds[j].singles[i].invocation => n = i

\* Every invocation was sent for exactly one call
C14_NoOtherInvocation ==
  \A n \in 1..Len(invocations) :
    Cardinality({ j \in 1..Len(embeds) :
                    \E i \in 1..Len(embeds[j].singles) : embeds[j].singles[i].invocation = n }) = 1

\* A resolved call j: every invocation has completed and result[i] is the
\* embedding returned for texts[i]
C14_InOrder(j) ==
  embeds[j].state = "resolved" =>
    /\ Len(embeds[j].value) = Len(embeds[j].texts)
    /\ \A i \in 1..Len(embeds[j].texts) :
         /\ C14_Invocation(j, i).status = "ok"
         /\ embeds[j].value[i] = C14_EmbeddingOf(C14_Invocation(j, i).body)

\* This step is an embedBatch call: all its invocations are sent in the step
\* and none has completed
C14_SentAtOnce ==
  (Len(embeds') = Len(embeds) + 1 /\ embeds'[Len(embeds')].kind = "batch") =>
    /\ Len(invocations') = Len(invocations) + Len(embeds'[Len(embeds')].texts)
    /\ \A n \in (Len(invocations) + 1)..Len(invocations') : invocations'[n].status = "pending"

\* C14: embedBatch over N texts sends exactly N invocations, one per text, all
\* before any completes; it resolves after all have completed, with
\* result[i] the embedding returned for texts[i]
C14_BatchInOrder ==
  /\ [](\A j \in C14_Batches : C14_OnePerText(j) /\ C14_InOrder(j))
  /\ [](C14_Batches # {} => C14_NoOtherInvocation)
  /\ [][C14_SentAtOnce]_vars

\* embedBatch(["a", "b"]) resolved after the invocation for "b" completed
\* first, each with its own embedding
C14_Witness ==
  /\ Len(embeds) = 1 /\ embeds[1].kind = "batch"
  /\ embeds[1].texts = << <<"a">>, <<"b">> >>
  /\ Len(invocations) = 2
  /\ invocations[2].overtook
  /\ invocations[1].body = EmbeddingBody(1) /\ invocations[2].body = EmbeddingBody(2)
  /\ embeds[1].state = "resolved"
  /\ embeds[1].value = << JsonArray(<< JsonNumber(1) >>), JsonArray(<< JsonNumber(2) >>) >>

\* ------------------------------------------------------------------------
\* C15: embedQuery and responses without an embedding
\* ------------------------------------------------------------------------
\* Responses in which the parser finds no embedding array: no embeddings
\* field, an empty embeddings list, a first entry without an embedding, and a
\* body that is no JSON text
C15_WithoutEmbedding ==
  { NoEmbeddingsBody, EmptyEmbeddingsBody, NoEmbeddingBody, UnparsableBody }

\* C15: an embedQuery call whose invocation was answered by such a response
\* resolves to the empty vector
C15_EmptyVector ==
  \A j \in 1..Len(embeds) :
    (/\ embeds[j].kind = "query"
     /\ invocations[embeds[j].singles[1].invocation].status = "ok"
     /\ invocations[embeds[j].singles[1].invocation].body \in C15_WithoutEmbedding)
    => embeds[j].state = "resolved" /\ embeds[j].value = JsonArray(<<>>)

\* ------------------------------------------------------------------------
\* C21: the profile listing asks for its pages one after another and maps
\* the mappings of all pages received
\* ------------------------------------------------------------------------
\* A response carries a continuation token
C21_HasToken(page) == page.nextToken # Undefined /\ page.nextToken # <<>>

\* The profile id of profile i of a page and the base model id of its
\* reference j, both trimmed; <<>> when there is none
C21_ProfileId(page, i) ==
  IF page.inferenceProfileSummaries[i].inferenceProfileId = Undefined THEN <<>>
  ELSE Trim(page.inferenceProfileSummaries[i].inferenceProfileId)

C21_BaseId(page, i, j) ==
  LET arn == page.inferenceProfileSummaries[i].models[j].modelArn
  IN IF arn = Undefined \/ ~Includes(arn, FoundationModelMarker) THEN <<>>
     ELSE Trim(SliceFrom(arn, IndexOf(arn, FoundationModelMarker) + Len(FoundationModelMarker)))

\* The places <<page, profile, reference>> of the mappings in the pages received
C21_Mappings(q) ==
  { t \in (1..Len(promises[q].responses)) \X (1..MaxProfiles) \X (1..MaxProfiles) :
      /\ t[2] <= Len(promises[q].responses[t[1]].inferenceProfileSummaries)
      /\ t[3] <= Len(promises[q].responses[t[1]].inferenceProfileSummaries[t[2]].models)
      /\ C21_ProfileId(promises[q].responses[t[1]], t[2]) # <<>>
      /\ C21_BaseId(promises[q].responses[t[1]], t[2], t[3]) # <<>> }

C21_BaseAt(q, t) == C21_BaseId(promises[q].responses[t[1]], t[2], t[3])

\* Place t comes before place u
C21_Before(t, u) ==
  \/ t[1] < u[1]
  \/ t[1] = u[1] /\ t[2] < u[2]
  \/ t[1] = u[1] /\ t[2] = u[2] /\ t[3] < u[3]

\* The last mapping of base id b
C21_Last(q, b) ==
  CHOOSE t \in C21_Mappings(q) :
    /\ C21_BaseAt(q, t) = b
    /\ \A u \in C21_Mappings(q) : C21_BaseAt(q, u) = b => (u = t \/ C21_Before(u, t))

\* Requests follow responses: the first request has no token, request k+1
\* carries the token of response k, at most one request is unanswered, and
\* a response without token is the last
C21_OneAfterAnother(q) ==
  /\ promises[q].requests[1] = Undefined
  /\ Len(promises[q].requests) <= Len(promises[q].responses) + 1
  /\ promises[q].profiles = "paging" => Len(promises[q].requests) = Len(promises[q].responses) + 1
  /\ \A k \in 1..Len(promises[q].responses) :
       IF C21_HasToken(promises[q].responses[k])
       THEN /\ k + 1 <= Len(promises[q].requests)
            /\ promises[q].requests[k + 1] = promises[q].responses[k].nextToken
       ELSE /\ k = Len(promises[q].responses)
            /\ Len(promises[q].requests) = k
            /\ promises[q].profiles = "done"

\* The map holds, for every base id mapped in a page received, the profile
\* id of its last mapping, and nothing else
C21_MapOfAllPages(q) ==
  /\ DOMAIN promises[q].profileMap = { C21_BaseAt(q, t) : t \in C21_Mappings(q) }
  /\ \A b \in DOMAIN promises[q].profileMap :
       promises[q].profileMap[b] =
         C21_ProfileId(promises[q].responses[C21_Last(q, b)[1]], C21_Last(q, b)[2])

\* C21: pages are requested strictly one after another, each request with
\* the token of the response before it, up to the first response without a
\* token; the map holds the mappings of all pages received, later ones
\* replacing earlier ones
C21_SequentialPaging ==
  \A q \in Promises : C21_OneAfterAnother(q) /\ C21_MapOfAllPages(q)

\* Two pages were received, the second remaps both models: the map holds the
\* last mapping of each
C21_Witness ==
  /\ Len(promises) = 1
  /\ promises[1].responses = <<PageM1More, PageRemapped>>
  /\ promises[1].requests = <<Undefined, Token1>>
  /\ promises[1].profiles = "done"
  /\ promises[1].profileMap[IdM1] = ProfileM2
  /\ promises[1].profileMap[IdM2] = ProfileM1

\* ------------------------------------------------------------------------
\* C22: the shape of the cache entries
\* ------------------------------------------------------------------------
\* The entry of key k holds a value and no fetch, or a fetch and no value
C22_ExactlyOne(k) == discoveryCache[k].hasValue <=> discoveryCache[k].inFlight = 0

\* A call of key k computed an effective refresh interval > 0, and no call
\* of the key computed 0
C22_CachedKey(k) ==
  /\ \E c \in Calls : calls[c].cacheKey = k /\ calls[c].refreshIntervalSeconds > 0
  /\ \A c \in Calls : calls[c].cacheKey = k => calls[c].refreshIntervalSeconds > 0

\* The value of the entry of key k is the list a fulfilled fetch of the key
\* came to, stored by the call that started it with the expiry it computed
C22_FromSuccess(k) ==
  discoveryCache[k].hasValue =>
    \E q \in Promises :
      /\ promises[q].cacheKey = k
      /\ promises[q].state = "fulfilled" /\ promises[q].handled
      /\ promises[q].models = "ok"
      /\ discoveryCache[k].value = promises[q].value
      /\ discoveryCache[k].expiresAt =
           promises[q].now + promises[q].refreshIntervalSeconds * 1000

\* The fetch of an in-flight entry is a fetch of that key
C22_OwnFetch(k) ==
  discoveryCache[k].inFlight # 0 =>
    /\ discoveryCache[k].inFlight \in Promises
    /\ promises[discoveryCache[k].inFlight].cacheKey = k

\* C22: every cache entry holds exactly one of a value and an in-flight
\* fetch, exists only for a key with effective refresh interval > 0, and
\* holds a value only from a fetch that succeeded
C22_EntryShape ==
  \A k \in DOMAIN discoveryCache :
    C22_ExactlyOne(k) /\ C22_CachedKey(k) /\ C22_FromSuccess(k) /\ C22_OwnFetch(k)

\* After a reset and a call with interval 0 that resolved, the entry of a
\* cached key holds the non-empty list of its fulfilled fetch
C22_Witness ==
  /\ resets = 1
  /\ \E c \in Calls : calls[c].refreshIntervalSeconds = 0 /\ calls[c].state = "resolved"
  /\ \E q \in Promises :
       /\ promises[q].refreshIntervalSeconds > 0
       /\ promises[q].state = "fulfilled" /\ promises[q].handled
       /\ promises[q].cacheKey \in DOMAIN discoveryCache
       /\ discoveryCache[promises[q].cacheKey].hasValue
       /\ discoveryCache[promises[q].cacheKey].value = promises[q].value
       /\ promises[q].value # <<>>

\* ------------------------------------------------------------------------
\* C23: the ids of the definitions of a result
\* ------------------------------------------------------------------------
\* The model ids of the listing of q, trimmed, are pairwise distinct
C23_DistinctModelIds(q) ==
  \A i, j \in Summaries(q) : BaseIdOf(SummaryAt(q, i)) = BaseIdOf(SummaryAt(q, j)) => i = j

\* No two definitions of the result of q have the same id
C23_DistinctDefinitionIds(q) ==
  \A a, b \in Definitions(q) : promises[q].value[a].id = promises[q].value[b].id => a = b

\* C23: a successful discovery over a listing with pairwise distinct model
\* ids returns definitions with pairwise distinct ids, whatever the profile map
C23_UniqueIds ==
  \A q \in Promises :
    (promises[q].state = "fulfilled" /\ C23_DistinctModelIds(q)) => C23_DistinctDefinitionIds(q)

=============================================================================
